---- MODULE Spec2Model ----
(***************************************************************************)
(* Model of the Legifrance API client (src/src/services/api_client.py):    *)
(* OAuth2 token lifecycle, bearer header propagation to the two httpx      *)
(* handles, tenacity retry/backoff, error classification, and the          *)
(* module-level singleton used by make_api_request.                        *)
(*                                                                         *)
(* Time is in whole seconds (variable now); backoff delays are computed    *)
(* in half-seconds so that the multiplier 0.5 is exact.                    *)
(***************************************************************************)
EXTENDS Integers, Sequences, FiniteSets, TLC

(* ------------------------------ bounds --------------------------------- *)
\* number of logical callers sharing the client
NumCallers == 2
\* last clock value of the client specification
MaxTime == 3
\* largest tenacity attempt_number for which wait_exponential is evaluated
MaxAttemptNumber == 8

(* ------------------------- program constants --------------------------- *)
\* stop_after_attempt(3)
StopAfterAttempt == 3
\* wait_exponential(multiplier=0.5, min=1, max=10), in half-seconds
WaitMultiplier == 1
WaitMin == 2
WaitMax == 20
HalvesPerSecond == 2
\* timedelta(seconds=expires_in - 60)
SafetyMargin == 60
\* token_data.get("expires_in", 3600)
DefaultExpiresIn == 3600

Callers == 1..NumCallers

Max(a, b) == IF a >= b THEN a ELSE b
Min(a, b) == IF a <= b THEN a ELSE b

RECURSIVE Pow(_, _)
Pow(b, e) == IF e = 0 THEN 1 ELSE b * Pow(b, e - 1)

(* ------------------------------ inputs --------------------------------- *)
\* access_token values a token endpoint may return (key present)
GoodTokens == {"tokA", "tokB"}
UsableTokenValues == {[present |-> TRUE, value |-> v] : v \in GoodTokens}
AccessTokenValues ==
    {[present |-> FALSE, value |-> ""]}
    \cup {[present |-> TRUE, value |-> v] : v \in GoodTokens \cup {"", "null"}}

\* expires_in values: absent, an integer, or a value int() rejects
ExpiresInInts == {59, 60, 61}
ExpiresInValues ==
    {[kind |-> "absent", value |-> 0], [kind |-> "bad", value |-> 0]}
    \cup {[kind |-> "int", value |-> n] : n \in ExpiresInInts}

\* what one call to the token endpoint can produce
TokenResponses ==
    {[kind |-> "transport", status |-> 0, json |-> FALSE,
      access_token |-> [present |-> FALSE, value |-> ""],
      expires_in |-> [kind |-> "absent", value |-> 0]]}
    \cup {[kind |-> "http", status |-> s, json |-> TRUE,
           access_token |-> [present |-> FALSE, value |-> ""],
           expires_in |-> [kind |-> "absent", value |-> 0]] : s \in {401, 403, 500}}
    \cup {[kind |-> "http", status |-> 200, json |-> FALSE,
           access_token |-> [present |-> FALSE, value |-> ""],
           expires_in |-> [kind |-> "absent", value |-> 0]]}
    \cup {[kind |-> "http", status |-> 200, json |-> TRUE,
           access_token |-> a, expires_in |-> e] :
             a \in UsableTokenValues, e \in ExpiresInValues}
    \cup {[kind |-> "http", status |-> 200, json |-> TRUE,
           access_token |-> a, expires_in |-> [kind |-> "int", value |-> 61]] :
             a \in AccessTokenValues \ UsableTokenValues}

\* what one call to the resource endpoint can produce: a transport failure,
\* an exception that is neither an httpx error nor a ValueError (the handle
\* is closed, the payload cannot be serialised), or a response
DataResponses ==
    {[kind |-> "transport", status |-> 0, json |-> FALSE],
     [kind |-> "exception", status |-> 0, json |-> FALSE]}
    \cup {[kind |-> "http", status |-> s, json |-> TRUE] : s \in {401, 403, 500}}
    \cup {[kind |-> "http", status |-> 200, json |-> j] : j \in BOOLEAN}

\* tool arguments / request payloads: Python dicts over two keys whose values
\* are None or a string
PayloadKeys == {"search", "code_name"}
PyNone == [type |-> "NoneType", value |-> ""]
PyStr(v) == [type |-> "str", value |-> v]
PyValues == {PyNone, PyStr("bail")}
Payloads == UNION {[K -> PyValues] : K \in SUBSET PayloadKeys}
\* the values that are false in Python without being None: 0, False, "", []
PyFalsy == {[type |-> "int", value |-> "0"], [type |-> "bool", value |-> "False"],
            PyStr(""), [type |-> "list", value |-> "[]"]}
\* a validated argument model: every field is present, optional ones may be None
ArgsModels == [PayloadKeys -> PyValues]
NoPayload == [k \in {} |-> PyNone]

\* tool names call_tool is invoked with: a configured one, an unknown one
ToolNames == {"rechercher_code", "outil_inconnu"}
KnownTools == {"rechercher_dans_texte_legal", "rechercher_code",
               "rechercher_jurisprudence_judiciaire"}

(* --------------------------- pure functions ---------------------------- *)
clean_dict_dropping_falsy(d) ==
    [k \in {x \in DOMAIN d : d[x].type # "NoneType" /\ d[x] \notin PyFalsy} |-> d[k]]

clean_dict_unchanged(d) == d

\* utils.clean_dict: {k: v for k, v in d.items() if v is not None}
clean_dict(d) == [k \in {x \in DOMAIN d : d[x] # PyNone} |-> d[k]]

\* arguments.model_dump(exclude_none=True)
model_dump_exclude_none(arguments) ==
    [k \in {x \in DOMAIN arguments : arguments[x].type # "NoneType"} |-> arguments[k]]

\* the JSON text httpx sends for one value of json=payload: None becomes null
json_value(v) == IF v.type = "NoneType" THEN "null" ELSE "\"" \o v.value \o "\""

\* the JSON object sent as the request body, member by member
json_dumps(payload) == [k \in DOMAIN payload |-> json_value(payload[k])]

Bearer(access_token) == "Bearer " \o access_token

NoExpiry == [set |-> FALSE, at |-> 0]
TokenInfo(access_token, expires_at) ==
    [access_token |-> access_token, expires_at |-> expires_at]
NoToken == TokenInfo("", NoExpiry)

\* an exception (or a value) leaving a call
Outcome(kind, status, variant, cause) ==
    [kind |-> kind, status |-> status, variant |-> variant, cause |-> cause]
NoOutcome == Outcome("none", 0, "", "")
Returned(kind) == Outcome(kind, 0, "", "")

APIErrorKinds == {"AuthenticationError", "DataParsingError", "LegifranceError"}

wait_exponential_floorless(attempt_number) ==
    Min(WaitMultiplier * Pow(2, attempt_number - 1), WaitMax)

\* tenacity wait_exponential(multiplier=0.5, min=1, max=10), half-seconds
wait_exponential(attempt_number) ==
    Max(Max(0, WaitMin), Min(WaitMultiplier * Pow(2, attempt_number - 1), WaitMax))

\* seconds slept for a delay given in half-seconds
SleepSeconds(delay) == delay \div HalvesPerSecond

is_token_expired_unset_ignored(token_info, t) == t > token_info.expires_at.at

is_token_expired_inclusive(token_info, t) ==
    token_info.expires_at.set /\ t >= token_info.expires_at.at

\* LegifranceApiClient._is_token_expired at clock value t
is_token_expired(token_info, t) ==
    token_info.expires_at.set /\ t > token_info.expires_at.at

expiry_without_margin(expires_in, t) == t + expires_in

\* datetime.now() + timedelta(seconds=expires_in - 60)
expiry_of(expires_in, t) == t + (expires_in - SafetyMargin)

\* LegifranceApiClient._process_token_response at clock value t: the
\* TokenInfo built, or the exception raised inside it
process_token_response(token_data, t) ==
    IF (~token_data.access_token.present \/ token_data.access_token.value = "")
       \/ token_data.access_token.value = "null"
    THEN [ok |-> FALSE, exc |-> "AuthenticationError", token_info |-> NoToken]
    ELSE IF token_data.expires_in.kind = "bad"
    THEN [ok |-> FALSE, exc |-> "ValueError", token_info |-> NoToken]
    ELSE LET expires_in == IF token_data.expires_in.kind = "absent"
                           THEN DefaultExpiresIn
                           ELSE token_data.expires_in.value
         IN [ok |-> TRUE, exc |-> "",
             token_info |-> TokenInfo(token_data.access_token.value,
                                      [set |-> TRUE, at |-> expiry_of(expires_in, t)])]

\* the exception raised inside the try block of _get_access_token, if any
token_try_block(resp, t) ==
    IF resp.kind = "transport"
    THEN [ok |-> FALSE, exc |-> "RequestError", status |-> 0, token_info |-> NoToken]
    ELSE IF resp.status \notin 200..299
    THEN [ok |-> FALSE, exc |-> "HTTPStatusError", status |-> resp.status,
          token_info |-> NoToken]
    ELSE IF ~resp.json
    THEN [ok |-> FALSE, exc |-> "ValueError", status |-> 0, token_info |-> NoToken]
    ELSE LET p == process_token_response(resp, t)
         IN [ok |-> p.ok, exc |-> p.exc, status |-> 0, token_info |-> p.token_info]

handle_token_error_401_only(exc, status) ==
    IF exc = "HTTPStatusError"
    THEN IF status = 401
         THEN Outcome("AuthenticationError", status, "status", exc)
         ELSE Outcome("LegifranceError", status, "status", exc)
    ELSE IF exc = "RequestError"
    THEN Outcome("LegifranceError", 0, "connect", exc)
    ELSE Outcome("LegifranceError", 0, "unexpected", exc)

\* LegifranceApiClient._handle_token_error: the exception it raises for e
handle_token_error(exc, status) ==
    IF exc = "HTTPStatusError"
    THEN IF status \in {401, 403}
         THEN Outcome("AuthenticationError", status, "status", exc)
         ELSE Outcome("LegifranceError", status, "status", exc)
    ELSE IF exc = "RequestError"
    THEN Outcome("LegifranceError", 0, "connect", exc)
    ELSE Outcome("LegifranceError", 0, "unexpected", exc)

\* one attempt of _get_access_token / _get_access_token_async
get_access_token_attempt(resp, t) ==
    LET r == token_try_block(resp, t)
    IN IF r.ok
       THEN [ok |-> TRUE, token_info |-> r.token_info, error |-> NoOutcome]
       ELSE [ok |-> FALSE, token_info |-> NoToken,
             error |-> handle_token_error(r.exc, r.status)]

handle_request_error_known_only(exc, status) ==
    IF exc = "HTTPStatusError"
    THEN IF status \in {401, 403}
         THEN Outcome("AuthenticationError", status, "status", exc)
         ELSE Outcome("LegifranceError", status, "status", exc)
    ELSE IF exc = "RequestError"
    THEN Outcome("LegifranceError", 0, "connect", exc)
    ELSE IF exc = "ValueError"
    THEN Outcome("DataParsingError", 0, "parse", exc)
    ELSE Outcome(exc, 0, "raw", exc)

\* LegifranceApiClient._handle_request_error: the exception it raises for e
handle_request_error(exc, status) ==
    IF exc = "HTTPStatusError"
    THEN IF status \in {401, 403}
         THEN Outcome("AuthenticationError", status, "status", exc)
         ELSE Outcome("LegifranceError", status, "status", exc)
    ELSE IF exc = "RequestError"
    THEN Outcome("LegifranceError", 0, "connect", exc)
    ELSE IF exc = "ValueError"
    THEN Outcome("DataParsingError", 0, "parse", exc)
    ELSE Outcome("LegifranceError", 0, "unexpected", exc)

\* the try block of request / request_async on a transport outcome
request_attempt(resp) ==
    IF resp.kind = "transport"
    THEN [ok |-> FALSE, error |-> handle_request_error("RequestError", 0)]
    ELSE IF resp.kind = "exception"
    THEN [ok |-> FALSE, error |-> handle_request_error("RuntimeError", 0)]
    ELSE IF resp.status \notin 200..299
    THEN [ok |-> FALSE, error |-> handle_request_error("HTTPStatusError", resp.status)]
    ELSE IF ~resp.json
    THEN [ok |-> FALSE, error |-> handle_request_error("ValueError", 0)]
    ELSE [ok |-> TRUE, error |-> NoOutcome]

fallback_attempt_expecting_json(resp) ==
    IF resp.kind = "transport"
    THEN Outcome("RequestError", 0, "raw", "RequestError")
    ELSE IF resp.kind = "exception"
    THEN Outcome("RuntimeError", 0, "raw", "RuntimeError")
    ELSE IF resp.status \notin 200..299
    THEN Outcome("HTTPStatusError", resp.status, "raw", "HTTPStatusError")
    ELSE IF ~resp.json
    THEN Outcome("DataParsingError", 0, "parse", "ValueError")
    ELSE Returned("json")

\* the raw-text fallback of get / get_async: no handler wraps it
fallback_attempt(resp) ==
    IF resp.kind = "transport"
    THEN Outcome("RequestError", 0, "raw", "RequestError")
    ELSE IF resp.kind = "exception"
    THEN Outcome("RuntimeError", 0, "raw", "RuntimeError")
    ELSE IF resp.status \notin 200..299
    THEN Outcome("HTTPStatusError", resp.status, "raw", "HTTPStatusError")
    ELSE Returned("text")

(* ------------------------------- state --------------------------------- *)
VARIABLES
    client,             \* the LegifranceApiClient instance (mode "none": not built)
    api_client,         \* module global _api_client is not None
    now,                \* datetime.now(), seconds
    callers,            \* each logical caller's call in progress
    exchange,           \* the credential exchange followed by SpecExpiry
    twin,               \* a second client instance, driven by the async forms
    tool,               \* one invocation of a tool-layer entry point
    limiter,            \* a rate_limit closure and the coroutines calling it
    config,             \* the settings object, the catalog and prompt calls
    factory             \* client construction and the module global _api_client

\* the state of the glue around the client
glue == <<tool, limiter, config, factory>>

vars == <<client, api_client, now, callers, exchange, twin, glue>>

\* client_state / async_state: the sync and the async httpx handle;
\* scope: the with / async with block the client is used in
NoClient ==
    [mode |-> "none", token_info |-> NoToken, headers_auth |-> "",
     client_auth |-> "", async_state |-> "none", async_auth |-> "",
     client_state |-> "none", scope |-> "none"]

NoResponse ==
    [src |-> "none", kind |-> "none", status |-> 0, json |-> FALSE,
     access_token |-> [present |-> FALSE, value |-> ""],
     expires_in |-> [kind |-> "absent", value |-> 0]]

TokenEnd(resp) ==
    [src |-> "token", kind |-> resp.kind, status |-> resp.status, json |-> resp.json,
     access_token |-> resp.access_token, expires_in |-> resp.expires_in]

DataEnd(src, resp) ==
    [src |-> src, kind |-> resp.kind, status |-> resp.status, json |-> resp.json,
     access_token |-> [present |-> FALSE, value |-> ""],
     expires_in |-> [kind |-> "absent", value |-> 0]]

IdleCaller ==
    [op |-> "none", async |-> FALSE, pc |-> "idle", phase |-> "none",
     attempt |-> 0, tok_attempt |-> 0, wake_at |-> 0,
     sent_auth |-> "", sent_tok |-> "",
     result |-> NoOutcome, ended_by |-> NoResponse,
     \* history of the call in progress (waits: the backoff sleeps so far,
     \* those of token acquisition included)
     tok_calls |-> 0, data_calls |-> 0, delays |-> <<>>, tok_delays |-> <<>>,
     waits |-> 0,
     start_expired |-> FALSE, first_tok_ok |-> FALSE, got |-> "",
     \* the arguments the caller gave, the payload handed to request, and the
     \* JSON body of the last data request sent
     arguments |-> NoPayload, payload |-> NoPayload, body |-> NoPayload]

NoExchange == [state |-> "none", issued_at |-> 0, processed_at |-> 0,
               expires_in |-> [kind |-> "absent", value |-> 0]]

\* a tool-layer entry point before it is called. arguments: the value given
\* (a dict, or None); sent: the payload handed to the upstream call;
\* tool_name: the tool invoked; url: where the upstream request is sent, as
\* the setting that holds the base URL, the separator put after it and the
\* segments of the path
NoRoute == [base |-> "", sep |-> "", path |-> <<>>]
NoUpstream == [kind |-> "none", shape |-> "", exc |-> ""]
NoReturn == [raised |-> "", content |-> <<>>]
NoTool ==
    [pc |-> "idle", layer |-> "", name |-> "", tool_name |-> "",
     arguments |-> [type |-> "dict", items |-> NoPayload],
     endpoint |-> "", url |-> NoRoute, sent |-> NoPayload,
     upstream |-> NoUpstream, returned |-> NoReturn]

\* @rate_limit(calls=5, period=1.0); the limiter's clock ticks twice a second
RateCalls == 5
RatePeriod == 2
\* coroutines calling the decorated function, the last clock value followed,
\* and the number of starts remembered
NumCoroutines == 3
MaxRateClock == 4
MaxStarts == 7
RateCallers == 1..NumCoroutines

\* the closure of rate_limit at decoration time, and the coroutines that call
\* the decorated function. clock: datetime.now() in ticks; starts: the clock
\* values at which the wrapped function was started, the recent ones
NoLimiter ==
    [clock |-> 0, last_reset |-> 0, calls_made |-> 0, starts |-> <<>>,
     coroutines |-> [c \in RateCallers |-> [pc |-> "idle", wake_at |-> 0]]]

\* Settings.yaml_config: None, or a catalog of tools and prompts
NoneYaml == [loaded |-> FALSE, tools |-> {}, prompts |-> {}]

\* before create_settings() has run. env: the environment variables that are
\* set; prompt_templates: the dict PROMPT_TEMPLATES, by prompt name; last: the
\* last call of list_tools / get_prompt and what it gave
NoCall == [fn |-> "", prompt_name |-> "", inputs |-> <<>>, raised |-> "",
           messages |-> <<>>, tools |-> {}]
NoTemplates == [n \in {} |-> <<>>]
NoConfig ==
    [env |-> {}, created |-> FALSE, api_key |-> "", api_url |-> "",
     yaml_config |-> NoneYaml, imported |-> FALSE,
     prompt_templates |-> NoTemplates, last |-> NoCall]

\* the arguments of LegifranceApiClient(...) besides base_url, none given
NoArgs == [token |-> PyNone, client_id |-> PyNone, client_secret |-> PyNone,
           token_url |-> PyNone]

\* no construction in progress. fn: the function called (the class, or
\* get_api_client); id, instance: the client object the call returned
NoConstruction ==
    [fn |-> "", pc |-> "idle", args |-> NoArgs, tok_attempt |-> 0,
     tok_calls |-> 0, id |-> 0, instance |-> NoClient, raised |-> ""]

\* _api_client = None at import (0: None, else the identity of the cached
\* instance); next_id: the identity the next instance gets; built,
\* constructions, failures, returned: the history of get_api_client (clients
\* it built, constructor runs it started, calls that raised, what it returned)
NoFactory ==
    [api_client |-> 0, next_id |-> 1, built |-> 0, constructions |-> 0,
     failures |-> 0, returned |-> {}, call |-> NoConstruction]

\* a synchronous call in progress holds the only thread
IsBlocking(rec) ==
    rec.pc \notin {"idle", "done"} /\ (~rec.async \/ rec.phase = "ctor")

Blocked(c) == \E d \in Callers \ {c} : IsBlocking(callers[d])

(* ------------------------- client operations --------------------------- *)
async_client_without_auth(cl) ==
    IF cl.async_state \in {"none", "closed"}
    THEN [cl EXCEPT !.async_state = "open", !.async_auth = ""]
    ELSE cl

\* the async_client property: the handle is created from self._headers
async_client(cl) ==
    IF cl.async_state \in {"none", "closed"}
    THEN [cl EXCEPT !.async_state = "open", !.async_auth = cl.headers_auth]
    ELSE cl

update_auth_header_skipped(cl) == cl

update_auth_header_sync_only(cl) ==
    LET auth_header == Bearer(cl.token_info.access_token)
    IN [cl EXCEPT !.headers_auth = auth_header, !.client_auth = auth_header]

\* LegifranceApiClient._update_auth_header
update_auth_header(cl) ==
    LET auth_header == Bearer(cl.token_info.access_token)
    IN [cl EXCEPT !.headers_auth = auth_header,
                  !.client_auth = auth_header,
                  !.async_auth = IF cl.async_state = "open" THEN auth_header ELSE @]

\* the end of __init__: the client exists with its Authorization headers set
constructed(mode, token_info) ==
    [mode |-> mode, token_info |-> token_info,
     headers_auth |-> Bearer(token_info.access_token),
     client_auth |-> Bearer(token_info.access_token),
     async_state |-> "none", async_auth |-> "",
     client_state |-> "open", scope |-> "none"]

stop_after_four(attempt_number) == attempt_number >= StopAfterAttempt + 1

stop_after_two(attempt_number) == attempt_number >= StopAfterAttempt - 1

\* tenacity stop_after_attempt(3)
stop_after_attempt(attempt_number) == attempt_number >= StopAfterAttempt

\* the operations of the tool layer, and those that go through make_api_request
ToolOps == {"call_tool", "execute_api_request"}
ViaMakeApiRequest == {"make_api_request", "execute_api_request"}
ViaSingleton == {"make_api_request", "call_tool", "execute_api_request"}

\* call_tool / execute_api_request: a result or a caught exception leaves as
\* one text content item
text_content_of(op, outcome) ==
    IF op \in ToolOps
    THEN Outcome("text_content", outcome.status, outcome.kind, outcome.cause)
    ELSE outcome

\* the call ends; what only a call in progress needs is dropped
Finish(rec, outcome, ended_by) ==
    [rec EXCEPT !.pc = "done", !.result = text_content_of(rec.op, outcome),
                !.ended_by = ended_by,
                !.phase = "none", !.tok_attempt = 0, !.wake_at = 0,
                !.tok_delays = <<>>, !.sent_tok = "", !.got = "",
                !.first_tok_ok = FALSE]

\* self.client.request(...) / self.async_client.request(...): the request
\* leaves with the handle's headers
Dispatch(rec, cl) ==
    LET cl2 == IF rec.async THEN async_client(cl) ELSE cl
        h == IF rec.async THEN cl2.async_auth ELSE cl2.client_auth
    IN [rec |-> [rec EXCEPT !.pc = IF rec.phase = "fallback" THEN "fb_wait"
                                   ELSE "data_wait",
                            !.data_calls = @ + 1,
                            !.body = IF rec.phase = "fallback" THEN NoPayload
                                     ELSE json_dumps(rec.payload),
                            !.sent_auth = h,
                            !.sent_tok = cl.token_info.access_token],
        cl |-> cl2]

\* _ensure_token / _ensure_token_async up to the token call, then the dispatch
ensure_token(rec, cl, t) ==
    IF is_token_expired(cl.token_info, t)
    THEN [rec |-> [rec EXCEPT !.pc = "tok_wait", !.tok_attempt = 1,
                              !.tok_calls = @ + 1, !.tok_delays = <<>>],
          cl |-> cl]
    ELSE Dispatch(rec, cl)

\* one attempt of request / request_async
BeginAttempt(rec, cl, t) ==
    ensure_token([rec EXCEPT !.attempt = @ + 1, !.phase = "req"], cl, t)

RequestRaised_fallback_for_post(rec, cl, t, e, r) ==
    IF rec.op \in {"get", "post"} /\ e.kind = "DataParsingError"
    THEN ensure_token([rec EXCEPT !.phase = "fallback"], cl, t)
    ELSE IF rec.op \in ViaMakeApiRequest /\ e.kind \in APIErrorKinds
    THEN [rec |-> Finish(rec, Outcome("error_map", e.status, e.kind, e.cause), r),
          cl |-> cl]
    ELSE [rec |-> Finish(rec, e, r), cl |-> cl]

\* an exception leaves request / request_async (retries exhausted)
RequestRaised(rec, cl, t, e, r) ==
    IF rec.op = "get" /\ e.kind = "DataParsingError"
    THEN ensure_token([rec EXCEPT !.phase = "fallback"], cl, t)
    ELSE IF rec.op \in ViaMakeApiRequest /\ e.kind \in APIErrorKinds
    THEN [rec |-> Finish(rec, Outcome("error_map", e.status, e.kind, e.cause), r),
          cl |-> cl]
    ELSE [rec |-> Finish(rec, e, r), cl |-> cl]

AttemptFailed_refreshing_on_401(rec, cl, t, e, r) ==
    IF r.src = "data" /\ e.kind = "AuthenticationError"
    THEN [rec |-> [rec EXCEPT !.pc = "tok_wait", !.tok_attempt = 1,
                              !.tok_calls = @ + 1, !.tok_delays = <<>>],
          cl |-> cl]
    ELSE IF stop_after_attempt(rec.attempt)
    THEN RequestRaised(rec, cl, t, e, r)
    ELSE [rec |-> [rec EXCEPT !.pc = "data_sleep",
                              !.wake_at = t + SleepSeconds(wait_exponential(rec.attempt)),
                              !.delays = Append(@, wait_exponential(rec.attempt)),
                              !.waits = @ + 1,
                              !.tok_attempt = 0, !.tok_delays = <<>>,
                              !.sent_auth = "", !.sent_tok = ""],
          cl |-> cl]

\* an attempt of request / request_async raised e: tenacity sleeps or re-raises
AttemptFailed(rec, cl, t, e, r) ==
    IF stop_after_attempt(rec.attempt)
    THEN RequestRaised(rec, cl, t, e, r)
    ELSE [rec |-> [rec EXCEPT !.pc = "data_sleep",
                              !.wake_at = t + SleepSeconds(wait_exponential(rec.attempt)),
                              !.delays = Append(@, wait_exponential(rec.attempt)),
                              !.waits = @ + 1,
                              !.tok_attempt = 0, !.tok_delays = <<>>,
                              !.sent_auth = "", !.sent_tok = ""],
          cl |-> cl]

TokenSucceeded_mutating_access_token(rec, cl, t, token_info) ==
    LET rec2 == [rec EXCEPT !.got = token_info.access_token,
                            !.first_tok_ok = IF rec.tok_calls = 1 THEN TRUE ELSE @,
                            !.tok_attempt = 0, !.tok_delays = <<>>]
    IN IF rec.phase = "ctor"
       THEN IF rec.op \in ViaSingleton
            THEN BeginAttempt(rec2, constructed("creds", token_info), t)
            ELSE [rec |-> Finish(rec2, Returned("client"), NoResponse),
                  cl |-> constructed("creds", token_info)]
       ELSE Dispatch(rec2, update_auth_header(
                [cl EXCEPT !.token_info.access_token = token_info.access_token]))

TokenSucceeded_async_keeps_header(rec, cl, t, token_info) ==
    LET rec2 == [rec EXCEPT !.got = token_info.access_token,
                            !.first_tok_ok = IF rec.tok_calls = 1 THEN TRUE ELSE @,
                            !.tok_attempt = 0, !.tok_delays = <<>>]
    IN IF rec.phase = "ctor"
       THEN IF rec.op \in ViaSingleton
            THEN BeginAttempt(rec2, constructed("creds", token_info), t)
            ELSE [rec |-> Finish(rec2, Returned("client"), NoResponse),
                  cl |-> constructed("creds", token_info)]
       ELSE Dispatch(rec2, IF rec.async
                           THEN [cl EXCEPT !.token_info = token_info]
                           ELSE update_auth_header([cl EXCEPT !.token_info = token_info]))

\* _get_access_token(_async) returned token_info
TokenSucceeded(rec, cl, t, token_info) ==
    LET rec2 == [rec EXCEPT !.got = token_info.access_token,
                            !.first_tok_ok = IF rec.tok_calls = 1 THEN TRUE ELSE @,
                            !.tok_attempt = 0, !.tok_delays = <<>>]
    IN IF rec.phase = "ctor"
       THEN IF rec.op \in ViaSingleton
            THEN BeginAttempt(rec2, constructed("creds", token_info), t)
            ELSE [rec |-> Finish(rec2, Returned("client"), NoResponse),
                  cl |-> constructed("creds", token_info)]
       ELSE Dispatch(rec2, update_auth_header([cl EXCEPT !.token_info = token_info]))

TokenRaised_reclassified(rec, cl, t, e, r) ==
    IF rec.phase = "req"
    THEN AttemptFailed(rec, cl, t, handle_request_error(e.cause, e.status), r)
    ELSE [rec |-> Finish(rec, e, r), cl |-> cl]

TokenRaised_clearing_token(rec, cl, t, e, r) ==
    LET n == IF rec.phase = "req"
             THEN AttemptFailed(rec, cl, t, e, r)
             ELSE [rec |-> Finish(rec, e, r), cl |-> cl]
    IN [rec |-> n.rec, cl |-> [n.cl EXCEPT !.token_info = NoToken]]

\* _get_access_token(_async) raised e after its last attempt
TokenRaised(rec, cl, t, e, r) ==
    IF rec.phase = "req"
    THEN AttemptFailed(rec, cl, t, e, r)
    ELSE [rec |-> Finish(rec, e, r), cl |-> cl]

(* ------------------------------ actions -------------------------------- *)
Init ==
    /\ client = NoClient
    /\ api_client = FALSE
    /\ now = 0
    /\ callers = [c \in Callers |-> IdleCaller]
    /\ exchange = NoExchange
    /\ twin = NoClient
    /\ tool = NoTool /\ limiter = NoLimiter /\ config = NoConfig
    /\ factory = NoFactory

\* a call starts on the lowest idle caller: callers are interchangeable
CanStart(c) ==
    /\ callers[c].pc = "idle" /\ ~Blocked(c)
    /\ \A d \in Callers : d < c => callers[d].pc # "idle"

\* LegifranceApiClient(base_url, token=token): a static token, or neither a
\* token nor credentials (construction from credentials: GetApiClient)
Construct(c, token) ==
    /\ CanStart(c)
    /\ client.mode = "none"
    /\ LET rec == [IdleCaller EXCEPT !.op = "ctor", !.phase = "ctor"]
       IN IF token # ""
          THEN /\ client' = constructed("static", TokenInfo(token, NoExpiry))
               /\ callers' = [callers EXCEPT ![c] =
                                 Finish(rec, Returned("client"), NoResponse)]
          ELSE /\ client' = client
               /\ callers' = [callers EXCEPT ![c] =
                                 Finish(rec, Outcome("ValueError", 0, "raw", "ValueError"),
                                        NoResponse)]
    /\ UNCHANGED <<api_client, now, exchange, twin, glue>>

\* get_api_client() up to the first token call of the constructor;
\* configured: settings hold client_id, client_secret and token_url
get_api_client(rec, configured) ==
    IF configured
    THEN [rec EXCEPT !.phase = "ctor", !.pc = "tok_wait",
                     !.tok_attempt = 1, !.tok_calls = 1]
    ELSE Finish(rec, Outcome("ValueError", 0, "raw", "ValueError"), NoResponse)

\* get_api_client() called while _api_client is None
GetApiClient(c, configured) ==
    /\ CanStart(c)
    /\ client.mode = "none" /\ ~api_client
    /\ callers' = [callers EXCEPT ![c] =
                      get_api_client([IdleCaller EXCEPT !.op = "get_api_client"],
                                     configured)]
    /\ UNCHANGED <<client, api_client, now, exchange, twin, glue>>

\* request / get and their async variants on the built client; post and
\* post_async return request("POST", ...) / request_async("POST", ...)
Call(c, op, async) ==
    /\ CanStart(c)
    /\ client.mode # "none"
    /\ LET rec == [IdleCaller EXCEPT !.op = op, !.async = async,
                       !.start_expired = is_token_expired(client.token_info, now)]
           n == BeginAttempt(rec, client, now)
       IN /\ callers' = [callers EXCEPT ![c] = n.rec]
          /\ client' = n.cl
    /\ UNCHANGED <<api_client, now, exchange, twin, glue>>

\* get_api_client() and then client.post_async(...) for the call rec
StartViaSingleton(c, rec, configured) ==
    /\ CanStart(c)
    /\ api_client \/ client.mode = "none"
    /\ IF api_client
       THEN LET n == BeginAttempt(
                       [rec EXCEPT !.start_expired =
                                      is_token_expired(client.token_info, now)],
                       client, now)
            IN /\ callers' = [callers EXCEPT ![c] = n.rec]
               /\ client' = n.cl
       ELSE /\ client' = client
            /\ callers' = [callers EXCEPT ![c] = get_api_client(rec, configured)]
    /\ UNCHANGED <<api_client, now, exchange, twin, glue>>

\* make_api_request(endpoint, arguments): the arguments are the payload
MakeApiRequest(c, configured, arguments) ==
    StartViaSingleton(c, [IdleCaller EXCEPT !.op = "make_api_request", !.async = TRUE,
                                            !.arguments = arguments,
                                            !.payload = arguments],
                      configured)

\* post / post_async on the built client
Post(c, payload, async) ==
    /\ CanStart(c)
    /\ client.mode # "none"
    /\ LET rec == [IdleCaller EXCEPT !.op = "post", !.async = async,
                       !.arguments = payload, !.payload = payload,
                       !.start_expired = is_token_expired(client.token_info, now)]
           n == BeginAttempt(rec, client, now)
       IN /\ callers' = [callers EXCEPT ![c] = n.rec]
          /\ client' = n.cl
    /\ UNCHANGED <<api_client, now, exchange, twin, glue>>

\* legifrance_tools.call_tool(name, arguments) without an api_client argument
CallTool(c, name, arguments, configured) ==
    LET rec == [IdleCaller EXCEPT !.op = "call_tool", !.async = TRUE,
                                  !.arguments = arguments]
    IN IF name \notin KnownTools
       THEN /\ CanStart(c)
            /\ callers' = [callers EXCEPT ![c] =
                              Finish(rec, Outcome("ValueError", 0, "raw", "ValueError"),
                                     NoResponse)]
            /\ UNCHANGED <<client, api_client, now, exchange, twin, glue>>
       ELSE StartViaSingleton(c, [rec EXCEPT !.payload = clean_dict(arguments)],
                              configured)

\* tools.execute_api_request(endpoint, arguments)
ExecuteApiRequest(c, arguments, configured) ==
    StartViaSingleton(c, [IdleCaller EXCEPT !.op = "execute_api_request",
                                            !.async = TRUE,
                                            !.arguments = arguments,
                                            !.payload =
                                               model_dump_exclude_none(arguments)],
                      configured)

\* one attempt of _get_access_token(_async) is answered by resp: the token is
\* taken, or tenacity sleeps, or the error leaves after the last attempt
token_response(rec, cl, t, resp) ==
    LET a == get_access_token_attempt(resp, t)
    IN IF a.ok
       THEN TokenSucceeded(rec, cl, t, a.token_info)
       ELSE IF stop_after_attempt(rec.tok_attempt)
       THEN TokenRaised(rec, cl, t, a.error, TokenEnd(resp))
       ELSE [rec |-> [rec EXCEPT
                        !.pc = "tok_sleep",
                        !.wake_at = t + SleepSeconds(wait_exponential(rec.tok_attempt)),
                        !.tok_delays = Append(@, wait_exponential(rec.tok_attempt)),
                        !.waits = @ + 1],
             cl |-> cl]

\* the next attempt of _get_access_token(_async) after its backoff sleep
token_wake(rec) ==
    [rec EXCEPT !.pc = "tok_wait", !.wake_at = 0,
                !.tok_attempt = @ + 1, !.tok_calls = @ + 1]

\* one attempt of request / request_async is answered by resp
data_response(rec, cl, t, resp) ==
    LET a == request_attempt(resp)
    IN IF a.ok
       THEN [rec |-> Finish(rec, Returned("json"), DataEnd("data", resp)), cl |-> cl]
       ELSE AttemptFailed(rec, cl, t, a.error, DataEnd("data", resp))

data_wake_without_check(rec, cl, t) ==
    Dispatch([rec EXCEPT !.wake_at = 0, !.attempt = @ + 1, !.phase = "req"], cl)

\* the next attempt of request / request_async after its backoff sleep
data_wake(rec, cl, t) == BeginAttempt([rec EXCEPT !.wake_at = 0], cl, t)

\* the token endpoint answers (or the transport fails) one attempt
TokenResponse(c, resp) ==
    /\ callers[c].pc = "tok_wait" /\ ~Blocked(c)
    /\ LET n == token_response(callers[c], client, now, resp)
       IN /\ callers' = [callers EXCEPT ![c] = n.rec]
          /\ client' = n.cl
          /\ api_client' = IF callers[c].phase = "ctor" /\ n.cl.mode # "none"
                            THEN TRUE ELSE api_client
    /\ UNCHANGED <<now, exchange, twin, glue>>

\* the backoff sleep between two token attempts ends
TokenWake(c) ==
    /\ callers[c].pc = "tok_sleep" /\ ~Blocked(c)
    /\ now >= callers[c].wake_at
    /\ callers' = [callers EXCEPT ![c] = token_wake(@)]
    /\ UNCHANGED <<client, api_client, now, exchange, twin, glue>>

\* the resource endpoint answers (or the transport fails) one attempt
DataResponse(c, resp) ==
    /\ callers[c].pc = "data_wait" /\ ~Blocked(c)
    /\ LET n == data_response(callers[c], client, now, resp)
       IN /\ callers' = [callers EXCEPT ![c] = n.rec]
          /\ client' = n.cl
    /\ UNCHANGED <<api_client, now, exchange, twin, glue>>

\* the backoff sleep between two attempts of request ends
DataWake(c) ==
    /\ callers[c].pc = "data_sleep" /\ ~Blocked(c)
    /\ now >= callers[c].wake_at
    /\ LET n == data_wake(callers[c], client, now)
       IN /\ callers' = [callers EXCEPT ![c] = n.rec]
          /\ client' = n.cl
    /\ UNCHANGED <<api_client, now, exchange, twin, glue>>

\* the raw-text fallback request of get / get_async is answered
FallbackResponse(c, resp) ==
    /\ callers[c].pc = "fb_wait" /\ ~Blocked(c)
    /\ callers' = [callers EXCEPT ![c] =
                      Finish(@, fallback_attempt(resp), DataEnd("fallback", resp))]
    /\ UNCHANGED <<client, api_client, now, exchange, twin, glue>>

\* the caller takes the result; it may call again
Return(c) ==
    /\ callers[c].pc = "done"
    /\ callers' = [callers EXCEPT ![c] = IdleCaller]
    /\ UNCHANGED <<client, api_client, now, exchange, twin, glue>>

\* aclose(): the async handle is closed
Aclose ==
    /\ client.mode # "none" /\ client.async_state = "open"
    /\ \A c \in Callers : ~IsBlocking(callers[c])
    /\ client' = [client EXCEPT !.async_state = "closed"]
    /\ UNCHANGED <<api_client, now, callers, exchange, twin, glue>>

\* a second passes
Tick ==
    /\ now < MaxTime
    /\ now' = now + 1
    /\ UNCHANGED <<client, api_client, callers, exchange, twin, glue>>

\* one logical caller at a time: every operation, every endpoint outcome
Next ==
    \/ \E token \in {"", "tok0"} : Construct(1, token)
    \/ \E configured \in BOOLEAN : GetApiClient(1, configured)
    \/ \E op \in {"request", "get"}, async \in BOOLEAN : Call(1, op, async)
    \/ \E configured \in BOOLEAN : MakeApiRequest(1, configured, NoPayload)
    \/ \E resp \in TokenResponses : TokenResponse(1, resp)
    \/ TokenWake(1)
    \/ \E resp \in DataResponses : DataResponse(1, resp)
    \/ DataWake(1)
    \/ \E resp \in DataResponses : FallbackResponse(1, resp)
    \/ Return(1)
    \/ Aclose
    \/ Tick

Spec == Init /\ [][Next]_vars

(* ---------------- several callers on the async path -------------------- *)
\* the endpoint outcomes followed when callers interleave
AsyncTokenResponses ==
    {r \in TokenResponses :
        \/ r.status = 500
        \/ /\ r.status = 200 /\ r.json
           /\ r.access_token \in UsableTokenValues
           /\ r.expires_in.kind = "int" /\ r.expires_in.value \in {60, 61}}
AsyncDataResponses ==
    {r \in DataResponses : r.status = 500 \/ (r.status = 200 /\ r.json)}

\* the client as get_api_client() built it at time 0
InitAsync ==
    /\ \E r \in AsyncTokenResponses :
          /\ r.status = 200
          /\ client = constructed("creds", process_token_response(r, 0).token_info)
    /\ api_client = TRUE
    /\ now = 0
    /\ callers = [c \in Callers |-> IdleCaller]
    /\ exchange = NoExchange
    /\ twin = NoClient
    /\ tool = NoTool /\ limiter = NoLimiter /\ config = NoConfig
    /\ factory = NoFactory

NextAsync ==
    \/ \E c \in Callers : Call(c, "request", TRUE)
    \/ \E c \in Callers, resp \in AsyncTokenResponses : TokenResponse(c, resp)
    \/ \E c \in Callers : TokenWake(c)
    \/ \E c \in Callers, resp \in AsyncDataResponses : DataResponse(c, resp)
    \/ \E c \in Callers : DataWake(c)
    \/ \E c \in Callers : Return(c)
    \/ Aclose
    \/ Tick

SpecAsync == InitAsync /\ [][NextAsync]_vars

(* ------------- the blocking and the async form side by side ------------ *)
\* latest clock value at which a pair of calls starts
MaxCallStart == 2

\* two clients built alike at time 0; the first is driven by the blocking
\* forms (caller 1), the second by the async forms (caller 2)
InitDual ==
    /\ \E r \in TokenResponses :
          /\ r.status = 200 /\ r.json
          /\ r.access_token = [present |-> TRUE, value |-> "tokA"]
          /\ r.expires_in \in {[kind |-> "int", value |-> 60],
                                [kind |-> "int", value |-> 61],
                                [kind |-> "absent", value |-> 0]}
          /\ client = constructed("creds", process_token_response(r, 0).token_info)
    /\ twin = client
    /\ tool = NoTool /\ limiter = NoLimiter /\ config = NoConfig
    /\ factory = NoFactory
    /\ api_client = TRUE
    /\ now = 0
    /\ callers = [c \in Callers |-> IdleCaller]
    /\ exchange = NoExchange

Both(pc) == callers[1].pc = pc /\ callers[2].pc = pc

\* the same operation is called in its two forms
DualCall(op) ==
    /\ Both("idle") /\ now <= MaxCallStart
    /\ LET n1 == BeginAttempt(
                    [IdleCaller EXCEPT !.op = op, !.async = FALSE,
                        !.start_expired = is_token_expired(client.token_info, now)],
                    client, now)
           n2 == BeginAttempt(
                    [IdleCaller EXCEPT !.op = op, !.async = TRUE,
                        !.start_expired = is_token_expired(twin.token_info, now)],
                    twin, now)
       IN /\ callers' = [callers EXCEPT ![1] = n1.rec, ![2] = n2.rec]
          /\ client' = n1.cl
          /\ twin' = n2.cl
    /\ UNCHANGED <<api_client, now, exchange, glue>>

\* the token endpoint gives both forms the same answer
DualTokenResponse(resp) ==
    /\ Both("tok_wait")
    /\ LET n1 == token_response(callers[1], client, now, resp)
           n2 == token_response(callers[2], twin, now, resp)
       IN /\ callers' = [callers EXCEPT ![1] = n1.rec, ![2] = n2.rec]
          /\ client' = n1.cl
          /\ twin' = n2.cl
    /\ UNCHANGED <<api_client, now, exchange, glue>>

DualTokenWake ==
    /\ Both("tok_sleep")
    /\ now >= callers[1].wake_at /\ now >= callers[2].wake_at
    /\ callers' = [callers EXCEPT ![1] = token_wake(@), ![2] = token_wake(@)]
    /\ UNCHANGED <<client, api_client, now, exchange, twin, glue>>

\* the resource endpoint gives both forms the same answer
DualDataResponse(resp) ==
    /\ Both("data_wait")
    /\ LET n1 == data_response(callers[1], client, now, resp)
           n2 == data_response(callers[2], twin, now, resp)
       IN /\ callers' = [callers EXCEPT ![1] = n1.rec, ![2] = n2.rec]
          /\ client' = n1.cl
          /\ twin' = n2.cl
    /\ UNCHANGED <<api_client, now, exchange, glue>>

DualDataWake ==
    /\ Both("data_sleep")
    /\ now >= callers[1].wake_at /\ now >= callers[2].wake_at
    /\ LET n1 == data_wake(callers[1], client, now)
           n2 == data_wake(callers[2], twin, now)
       IN /\ callers' = [callers EXCEPT ![1] = n1.rec, ![2] = n2.rec]
          /\ client' = n1.cl
          /\ twin' = n2.cl
    /\ UNCHANGED <<api_client, now, exchange, glue>>

DualFallbackResponse(resp) ==
    /\ Both("fb_wait")
    /\ callers' = [callers EXCEPT
                      ![1] = Finish(@, fallback_attempt(resp), DataEnd("fallback", resp)),
                      ![2] = Finish(@, fallback_attempt(resp), DataEnd("fallback", resp))]
    /\ UNCHANGED <<client, api_client, now, exchange, twin, glue>>

DualReturn ==
    /\ Both("done")
    /\ callers' = [callers EXCEPT ![1] = IdleCaller, ![2] = IdleCaller]
    /\ UNCHANGED <<client, api_client, now, exchange, twin, glue>>

\* aclose() on the client driven by the async forms, between two calls
TwinAclose ==
    /\ Both("idle") /\ twin.async_state = "open"
    /\ twin' = [twin EXCEPT !.async_state = "closed"]
    /\ UNCHANGED <<client, api_client, now, callers, exchange, glue>>

\* a second passes, while a backoff sleep lasts or before a pair of calls
DualTick ==
    /\ \/ \E c \in {1, 2} : /\ callers[c].pc \in {"tok_sleep", "data_sleep"}
                              /\ now < callers[c].wake_at
       \/ Both("idle") /\ now < MaxCallStart
    /\ now' = now + 1
    /\ UNCHANGED <<client, api_client, callers, exchange, twin, glue>>

NextDual ==
    \/ \E op \in {"request", "get", "post"} : DualCall(op)
    \/ \E resp \in TokenResponses : DualTokenResponse(resp)
    \/ DualTokenWake
    \/ \E resp \in DataResponses : DualDataResponse(resp)
    \/ DualDataWake
    \/ \E resp \in DataResponses : DualFallbackResponse(resp)
    \/ DualReturn
    \/ TwinAclose
    \/ DualTick

SpecDual == InitDual /\ [][NextDual]_vars

(* ------------------ the client used as a scoped resource --------------- *)
ScopeKinds == {"with", "async with"}

\* aclose(): the async handle is closed if it exists and is open
aclose(cl) ==
    IF cl.async_state = "open" THEN [cl EXCEPT !.async_state = "closed"] ELSE cl

\* __exit__: self.client.close()
exit(cl) == [cl EXCEPT !.client_state = "closed"]

\* __aexit__: await self.aclose()
aexit(cl) == aclose(cl)

\* __enter__ / __aenter__: the block is entered with the client itself
Enter(kind) ==
    /\ client.mode # "none" /\ client.scope = "none"
    /\ \A c \in Callers : callers[c].pc = "idle"
    /\ client' = [client EXCEPT !.scope = kind]
    /\ UNCHANGED <<api_client, now, callers, exchange, twin, glue>>

\* __exit__ / __aexit__: the block is left, normally or by the exception of
\* the call that just ended
Exit ==
    /\ client.scope \in ScopeKinds
    /\ \A c \in Callers : callers[c].pc \in {"idle", "done"}
    /\ client' = [(IF client.scope = "with" THEN exit(client) ELSE aexit(client))
                     EXCEPT !.scope = "exited " \o client.scope]
    /\ UNCHANGED <<api_client, now, callers, exchange, twin, glue>>

\* an operation of the client called inside the block
ScopedCall(c, op, async) ==
    /\ client.scope \in ScopeKinds
    /\ Call(c, op, async)

NextScope ==
    \/ Construct(1, "tok0")
    \/ \E kind \in ScopeKinds : Enter(kind)
    \/ \E op \in {"request", "get"}, async \in BOOLEAN : ScopedCall(1, op, async)
    \/ \E resp \in DataResponses : DataResponse(1, resp)
    \/ DataWake(1)
    \/ \E resp \in DataResponses : FallbackResponse(1, resp)
    \/ Return(1)
    \/ Exit
    \/ Tick

SpecScope == Init /\ [][NextScope]_vars

(* ------------------- the tool layer and its payloads -------------------- *)
\* the token endpoint fails, or issues a token with the default lifetime
ToolTokenResponses ==
    {r \in TokenResponses :
        \/ r.status = 500
        \/ /\ r.status = 200 /\ r.json
           /\ r.access_token = [present |-> TRUE, value |-> "tokA"]
           /\ r.expires_in.kind = "absent"}

NextTools ==
    \/ \E payload \in Payloads, async \in BOOLEAN : Post(1, payload, async)
    \/ \E arguments \in Payloads, configured \in BOOLEAN :
          MakeApiRequest(1, configured, arguments)
    \/ \E name \in ToolNames, arguments \in Payloads, configured \in BOOLEAN :
          CallTool(1, name, arguments, configured)
    \/ \E arguments \in ArgsModels, configured \in BOOLEAN :
          ExecuteApiRequest(1, arguments, configured)
    \/ \E resp \in ToolTokenResponses : TokenResponse(1, resp)
    \/ TokenWake(1)
    \/ \E resp \in DataResponses : DataResponse(1, resp)
    \/ DataWake(1)
    \/ Return(1)
    \/ Tick

SpecTools == Init /\ [][NextTools]_vars

(* --------------- one credential exchange against the clock ------------- *)
\* timeout: float = 30.0
RequestTimeout == 30
\* latest clock value at which the exchange starts
MaxStart == 2
\* a long quiet period, and the seconds followed one by one after it
LongStep == 3500
Window == 100

\* the lifetimes the token endpoint may declare
ExchangeLifetimes ==
    {[kind |-> "absent", value |-> 0]}
    \cup {[kind |-> "int", value |-> n] : n \in {0, 59, 60, 61, 120, 3600}}

InitExpiry ==
    /\ client = NoClient
    /\ api_client = FALSE
    /\ now \in 0..MaxStart
    /\ callers = [c \in Callers |-> IdleCaller]
    /\ exchange = NoExchange
    /\ twin = NoClient
    /\ tool = NoTool /\ limiter = NoLimiter /\ config = NoConfig
    /\ factory = NoFactory

\* the constructor asks for a token and the token endpoint issues it
IssueToken(e) ==
    /\ exchange.state = "none"
    /\ now <= MaxStart
    /\ exchange' = [state |-> "in_flight", issued_at |-> now, processed_at |-> 0,
                    expires_in |-> e]
    /\ UNCHANGED <<client, api_client, now, callers, twin, glue>>

\* the response arrives within the request timeout and __init__ completes
ProcessToken ==
    /\ exchange.state = "in_flight"
    /\ now - exchange.issued_at <= RequestTimeout
    /\ LET p == process_token_response(
                   [access_token |-> [present |-> TRUE, value |-> "tokA"],
                    expires_in |-> exchange.expires_in], now)
       IN client' = constructed("creds", p.token_info)
    /\ api_client' = TRUE
    /\ exchange' = [exchange EXCEPT !.state = "processed", !.processed_at = now]
    /\ UNCHANGED <<now, callers, twin, glue>>

\* a second passes
ExpiryTick ==
    /\ now % LongStep < Window
    /\ now' = now + 1
    /\ UNCHANGED <<client, api_client, callers, exchange, twin, glue>>

\* nothing happens for a long time
LongWait ==
    /\ now < LongStep
    /\ now' = now + LongStep
    /\ UNCHANGED <<client, api_client, callers, exchange, twin, glue>>

NextExpiry ==
    \/ \E e \in ExchangeLifetimes : IssueToken(e)
    \/ ProcessToken
    \/ ExpiryTick
    \/ LongWait

SpecExpiry == InitExpiry /\ [][NextExpiry]_vars

(* --------------------------- the tool layer ---------------------------- *)
ToolLayers ==
    {"legifrance_tools.call_tool", "mcp_server.call_tool",
     "tools.execute_api_request"}

\* the values given as arguments: a dict whose values are None, a string or
\* a falsy value, or None
ToolArguments ==
    {[type |-> "dict", items |-> d] :
        d \in UNION {[K -> PyValues \cup PyFalsy] : K \in SUBSET PayloadKeys}}
    \cup {[type |-> "NoneType", items |-> NoPayload]}

\* the endpoints tools.py passes to execute_api_request
Endpoints == {"code", "juri", "texte_legal"}

\* what the awaited upstream call gives back: a value, by its shape (a
\* mapping without "error", a list, a string, a mapping whose "error" is a
\* string, a mapping whose "error" is itself a mapping), or an exception
ResultShapes == {"dict", "list", "str", "error_str", "error_obj"}
UpstreamExceptions == APIErrorKinds \cup {"ValueError", "HTTPStatusError"}
UpstreamValue(shape) == [kind |-> "value", shape |-> shape, exc |-> ""]
UpstreamRaise(exc) == [kind |-> "raise", shape |-> "", exc |-> exc]
UpstreamOutcomes ==
    {UpstreamValue(s) : s \in ResultShapes}
    \cup {UpstreamRaise(e) : e \in UpstreamExceptions}

\* what requests.post gives mcp_server.make_api_request: an exception, or a
\* response by res.ok, status, Content-Type and the JSON value of its body
\* ("none": the body is not JSON)
McpResponses ==
    {[kind |-> "RequestException", ok |-> FALSE, status |-> 0,
      content_type |-> "", json |-> "none"]}
    \cup {[kind |-> "http", ok |-> TRUE, status |-> 200,
           content_type |-> "application/json", json |-> j] :
             j \in ResultShapes \cup {"none"}}
    \cup {[kind |-> "http", ok |-> FALSE, status |-> st, content_type |-> ct,
           json |-> j] :
             st \in {404, 500}, ct \in {"text/plain", "application/json"},
             j \in {"dict", "str", "none"}}

\* TextContent(type="text", text=...); the text is kept as the prefix of an
\* error message, the name it embeds, and what follows
TextContent(prefix, subject, detail) ==
    [type |-> "text", prefix |-> prefix, subject |-> subject, detail |-> detail]
ToolReturned(content) == [raised |-> "", content |-> content]
ToolRaised(exc) == [raised |-> exc, content |-> <<>>]

\* the match statement of call_tool: "" when no case matches
endpoint_of(name) ==
    IF name = "rechercher_dans_texte_legal" THEN "loda"
    ELSE IF name = "rechercher_code" THEN "code"
    ELSE IF name = "rechercher_jurisprudence_judiciaire" THEN "juri"
    ELSE ""

\* format_api_result, and the same three branches at the end of call_tool:
\* TextContent(text=result["error"]) raises unless the value is a string
format_api_result(result) ==
    IF result.shape \in {"error_str", "error_obj"}
    THEN IF result.shape = "error_str"
         THEN ToolReturned(<<TextContent("", "", "result[error]")>>)
         ELSE ToolRaised("ValidationError")
    ELSE IF result.shape = "str"
    THEN ToolReturned(<<TextContent("", "", "result")>>)
    ELSE ToolReturned(<<TextContent("", "", "json.dumps(result)")>>)

except_api_error(prefix, subject, r) ==
    IF r.raised \in APIErrorKinds
    THEN ToolReturned(<<TextContent(prefix, subject, r.raised)>>)
    ELSE r

\* except Exception as e: return [TextContent(type="text", text=error_message)]
except_exception(prefix, subject, r) ==
    IF r.raised # ""
    THEN ToolReturned(<<TextContent(prefix, subject, r.raised)>>)
    ELSE r

\* the try block entered once the upstream call has answered
try_format(upstream) ==
    IF upstream.kind = "raise"
    THEN ToolRaised(upstream.exc)
    ELSE format_api_result(upstream)

\* what the entry point returns (or raises) for the answer of the upstream
\* call, or for an exception raised before that call (shape "before"); the
\* message prefixes are written without their accents
tool_result(layer, name, upstream) ==
    IF layer = "legifrance_tools.call_tool"
    THEN except_exception("Erreur lors de l'execution de ", name,
            IF upstream.shape = "before"
            THEN ToolRaised(upstream.exc)
            ELSE except_exception("Erreur API lors de l'execution de ", name,
                                  try_format(upstream)))
    ELSE IF layer = "mcp_server.call_tool"
    THEN except_exception("Erreur lors de l'execution de ", name,
                          try_format(upstream))
    ELSE except_exception("Error executing ", name, try_format(upstream))

\* mcp_server.make_api_request once requests.post has answered: the value it
\* returns (it raises nothing)
mcp_make_api_request(res) ==
    IF res.kind = "RequestException"
    THEN UpstreamValue("error_str")
    ELSE IF res.ok
    THEN IF res.json = "none" THEN UpstreamValue("str") ELSE UpstreamValue(res.json)
    ELSE IF res.status \in {422, 404} /\ res.content_type = "text/plain"
    THEN UpstreamValue("error_str")
    ELSE IF res.content_type = "application/json"
    THEN IF res.json = "none" \/ res.json = "str"
         THEN UpstreamValue("error_str")
         ELSE UpstreamValue("error_obj")
    ELSE UpstreamValue("error_str")

\* the endpoint each decorated tool function of tools.py passes on
decorated_endpoint(name) ==
    IF name = "rechercher_dans_texte_legal" THEN "texte_legal"
    ELSE IF name = "rechercher_code" THEN "code"
    ELSE IF name = "rechercher_jurisprudence_judiciaire" THEN "juri"
    ELSE ""

\* LegifranceApiClient._build_url: f"{self.base_url}/{endpoint.lstrip('/')}";
\* an endpoint is the sequence of its segments, "" standing before a
\* leading slash
build_url(endpoint) ==
    [base |-> "base_url", sep |-> "/",
     path |-> IF endpoint # <<>> /\ Head(endpoint) = "" THEN Tail(endpoint)
              ELSE endpoint]

\* api_client.make_api_request: client.post_async(f"/consult/{endpoint}", ...)
api_client_make_api_request(endpoint) == build_url(<<"", "consult", endpoint>>)

\* where each layer sends the request for an endpoint it was given:
\* legifrance_tools.call_tool posts to the endpoint itself, mcp_server builds
\* f"{settings.api.url}{endpoint}", execute_api_request goes through
\* api_client.make_api_request
url_of(layer, endpoint) ==
    IF layer = "legifrance_tools.call_tool"
    THEN build_url(<<endpoint>>)
    ELSE IF layer = "mcp_server.call_tool"
    THEN [base |-> "settings.api.url", sep |-> "", path |-> <<endpoint>>]
    ELSE api_client_make_api_request(endpoint)

\* the route a tool name takes through a layer: the endpoint chosen for it
\* and the URL requested
route(layer, name) ==
    LET endpoint == IF layer = "tools.execute_api_request"
                    THEN decorated_endpoint(name)
                    ELSE endpoint_of(name)
    IN IF endpoint = "" THEN NoRoute ELSE url_of(layer, endpoint)

ToolDone(t, upstream) ==
    [t EXCEPT !.pc = "done", !.upstream = upstream,
              !.returned = tool_result(t.layer, t.name, upstream)]

\* the entry point is called and runs up to its upstream call: call_tool
\* picks the endpoint and cleans the arguments, execute_api_request dumps
\* the argument model; name is the tool name, or the endpoint given to
\* execute_api_request
ToolCall(layer, name, arguments) ==
    /\ tool.pc = "idle"
    /\ layer = "tools.execute_api_request"
          => name \in Endpoints /\ arguments.type = "dict"
                /\ DOMAIN arguments.items = PayloadKeys
    /\ LET t == [NoTool EXCEPT !.layer = layer, !.name = name,
                               !.tool_name = IF layer = "tools.execute_api_request"
                                             THEN "" ELSE name,
                               !.arguments = arguments]
       IN tool' =
            IF layer = "tools.execute_api_request"
            THEN [t EXCEPT !.pc = "awaiting", !.endpoint = name,
                           !.url = url_of(layer, name),
                           !.sent = model_dump_exclude_none(arguments.items)]
            ELSE IF endpoint_of(name) = ""
            THEN ToolDone(t, [kind |-> "raise", shape |-> "before",
                              exc |-> "ValueError"])
            ELSE IF arguments.type # "dict"
            THEN IF layer = "mcp_server.call_tool"
                 THEN ToolDone([t EXCEPT !.endpoint = endpoint_of(name)],
                               UpstreamValue("error_str"))
                 ELSE ToolDone([t EXCEPT !.endpoint = endpoint_of(name)],
                               [kind |-> "raise", shape |-> "before",
                                exc |-> "AttributeError"])
            ELSE [t EXCEPT !.pc = "awaiting", !.endpoint = endpoint_of(name),
                           !.url = route(layer, name),
                           !.sent = clean_dict(arguments.items)]
    /\ UNCHANGED <<client, api_client, now, callers, exchange, twin,
                   limiter, config, factory>>

\* a decorated tool function of tools.py is called with its argument model:
\* return await execute_api_request(<endpoint>, arguments)
ToolFunction(name, arguments) ==
    /\ tool.pc = "idle"
    /\ name \in KnownTools
    /\ arguments.type = "dict" /\ DOMAIN arguments.items = PayloadKeys
    /\ tool' = [NoTool EXCEPT !.pc = "awaiting",
                              !.layer = "tools.execute_api_request",
                              !.name = decorated_endpoint(name),
                              !.tool_name = name,
                              !.arguments = arguments,
                              !.endpoint = decorated_endpoint(name),
                              !.url = route("tools.execute_api_request", name),
                              !.sent = model_dump_exclude_none(arguments.items)]
    /\ UNCHANGED <<client, api_client, now, callers, exchange, twin,
                   limiter, config, factory>>

\* the awaited call (the api_client argument, post_async, or
\* api_client.make_api_request) answers or raises
ToolUpstream(outcome) ==
    /\ tool.pc = "awaiting" /\ tool.layer # "mcp_server.call_tool"
    /\ tool' = ToolDone(tool, outcome)
    /\ UNCHANGED <<client, api_client, now, callers, exchange, twin,
                   limiter, config, factory>>

\* requests.post inside mcp_server.make_api_request answers or raises
McpHttpResponse(res) ==
    /\ tool.pc = "awaiting" /\ tool.layer = "mcp_server.call_tool"
    /\ tool' = ToolDone(tool, mcp_make_api_request(res))
    /\ UNCHANGED <<client, api_client, now, callers, exchange, twin,
                   limiter, config, factory>>

\* the caller takes what the entry point returned
ToolReturn ==
    /\ tool.pc = "done"
    /\ tool' = NoTool
    /\ UNCHANGED <<client, api_client, now, callers, exchange, twin,
                   limiter, config, factory>>

NextToolLayer ==
    \/ \E layer \in ToolLayers, name \in ToolNames \cup KnownTools \cup Endpoints,
          arguments \in ToolArguments : ToolCall(layer, name, arguments)
    \/ \E name \in KnownTools, arguments \in ToolArguments :
          ToolFunction(name, arguments)
    \/ \E outcome \in UpstreamOutcomes : ToolUpstream(outcome)
    \/ \E res \in McpResponses : McpHttpResponse(res)
    \/ ToolReturn

SpecToolLayer == Init /\ [][NextToolLayer]_vars

(* --------------------------- the rate limiter -------------------------- *)
\* the wrapped function is started at the limiter's clock value
start_func(l, c) ==
    [l EXCEPT !.calls_made = @ + 1,
              !.starts = Append(@, l.clock),
              !.coroutines[c] = [pc |-> "running", wake_at |-> 0]]

\* wrapper(*args) up to its first suspension: the window is reset when more
\* than period has elapsed; when the count is used up and time remains in
\* the window the coroutine sleeps, otherwise the wrapped function starts
wrapper(l, c) ==
    LET elapsed_time == l.clock - l.last_reset
        l1 == IF elapsed_time > RatePeriod
              THEN [l EXCEPT !.calls_made = 0, !.last_reset = l.clock]
              ELSE l
        wait_time == RatePeriod - (l1.clock - l1.last_reset)
    IN IF l1.calls_made >= RateCalls /\ wait_time > 0
       THEN [l1 EXCEPT !.coroutines[c] =
                          [pc |-> "sleeping", wake_at |-> l1.clock + wait_time]]
       ELSE start_func(l1, c)

\* wrapper after await asyncio.sleep(wait_time): the closure is reset
\* whatever the other coroutines did meanwhile, then the function starts
wrapper_after_sleep(l, c) ==
    start_func([l EXCEPT !.last_reset = l.clock, !.calls_made = 0], c)

\* a coroutine calls the decorated function
RateCall(c) ==
    /\ limiter.coroutines[c].pc = "idle"
    /\ Len(limiter.starts) < MaxStarts
    /\ limiter' = wrapper(limiter, c)
    /\ UNCHANGED <<client, api_client, now, callers, exchange, twin, tool, config,
                   factory>>

\* the sleep of a coroutine ends, at or after the time asked for
RateWake(c) ==
    /\ limiter.coroutines[c].pc = "sleeping"
    /\ limiter.clock >= limiter.coroutines[c].wake_at
    /\ Len(limiter.starts) < MaxStarts
    /\ limiter' = wrapper_after_sleep(limiter, c)
    /\ UNCHANGED <<client, api_client, now, callers, exchange, twin, tool, config,
                   factory>>

\* the wrapped function returns to the coroutine
RateReturn(c) ==
    /\ limiter.coroutines[c].pc = "running"
    /\ limiter' = [limiter EXCEPT !.coroutines[c] = [pc |-> "idle", wake_at |-> 0]]
    /\ UNCHANGED <<client, api_client, now, callers, exchange, twin, tool, config,
                   factory>>

\* half a second passes; starts older than a period are forgotten
RateTick ==
    /\ limiter.clock < MaxRateClock
    /\ limiter' = [limiter EXCEPT
                     !.clock = @ + 1,
                     !.starts = SelectSeq(@, LAMBDA t : t > limiter.clock + 1 - RatePeriod)]
    /\ UNCHANGED <<client, api_client, now, callers, exchange, twin, tool, config,
                   factory>>

NextRate ==
    \/ \E c \in RateCallers : RateCall(c)
    \/ \E c \in RateCallers : RateWake(c)
    \/ \E c \in RateCallers : RateReturn(c)
    \/ RateTick

SpecRate == Init /\ [][NextRate]_vars

\* callers that do not overlap: a call begins when no other is in progress
RateCallSequential(c) ==
    /\ \A d \in RateCallers : limiter.coroutines[d].pc = "idle"
    /\ RateCall(c)

NextRateSequential ==
    \/ \E c \in RateCallers : RateCallSequential(c)
    \/ \E c \in RateCallers : RateWake(c)
    \/ \E c \in RateCallers : RateReturn(c)
    \/ RateTick

SpecRateSequential == Init /\ [][NextRateSequential]_vars

(* ------------------- settings, catalog and prompts --------------------- *)
EnvNames == {"DEV_API_KEY", "DEV_API_URL", "LEGIFRANCE_CLIENT_ID", "LOG_LEVEL"}
PromptNames == {"agent_juridique_expert", "prompt_inconnu"}
Questions == {"Test question", "Autre question"}
\* the inputs mapping of get_prompt, as the sequence of its (key, value) items
PromptInputs == {<<>>} \cup {<<[key |-> "question", value |-> q]>> : q \in Questions}
GetPromptLayers == {"mcp_server", "legifrance_tools", "prompts"}

\* a text is kept as the sequence of its parts, a placeholder being one part
Placeholder(key) == "{" \o key \o "}"

\* the agent_juridique_expert entry of prompt_templates.yml: a system message
\* and a user message whose single text item holds {question}
ExpertTemplate ==
    <<[role |-> "system",
       content |-> <<[type |-> "text", text |-> <<"Tu es un agent juridique expert.">>]>>],
      [role |-> "user",
       content |-> <<[type |-> "text", text |-> <<"Question : ", Placeholder("question")>>]>>]>>

\* text.replace("{key}", str(value)) / text.format(key=value)
replace(text, key, value) ==
    [i \in DOMAIN text |-> IF text[i] = Placeholder(key) THEN value ELSE text[i]]

\* _replace_variables: one replace per item of the inputs
RECURSIVE replace_variables(_, _)
replace_variables(text, variables) ==
    IF variables = <<>>
    THEN text
    ELSE replace_variables(replace(text, Head(variables).key, Head(variables).value),
                           Tail(variables))

\* the messages built from a prompt configuration
render_messages(messages, inputs) ==
    [m \in DOMAIN messages |->
        [role |-> messages[m].role,
         content |-> [i \in DOMAIN messages[m].content |->
                        [type |-> messages[m].content[i].type,
                         text |-> replace_variables(messages[m].content[i].text,
                                                    inputs)]]]]

\* inputs.get("question", "")
question_of(inputs) ==
    IF \E i \in DOMAIN inputs : inputs[i].key = "question"
    THEN inputs[CHOOSE i \in DOMAIN inputs : inputs[i].key = "question"].value
    ELSE ""

\* the loop of prompts.get_prompt: the text items of the user messages are
\* formatted with the question
format_user_messages(messages, question) ==
    [m \in DOMAIN messages |->
        IF messages[m].role # "user"
        THEN messages[m]
        ELSE [messages[m] EXCEPT !.content =
                [i \in DOMAIN @ |->
                    IF @[i].type = "text"
                    THEN [@[i] EXCEPT !.text = replace(@, "question", question)]
                    ELSE @[i]]]]

\* Settings(...) as create_settings builds it: no yaml_config is passed, so
\* the field keeps its default
create_settings(env) ==
    [api_key |-> IF "DEV_API_KEY" \in env THEN "DEV_API_KEY" ELSE "development_key",
     api_url |-> IF "DEV_API_URL" \in env THEN "DEV_API_URL" ELSE "development_key",
     yaml_config |-> NoneYaml]

\* list_tools over tools_config = settings.yaml_config
list_tools(tools_config) ==
    IF ~tools_config.loaded
    THEN [NoCall EXCEPT !.fn = "list_tools", !.raised = "AttributeError"]
    ELSE [NoCall EXCEPT !.fn = "list_tools", !.tools = tools_config.tools]

\* mcp_server.get_prompt / legifrance_tools.get_prompt over tools_config
get_prompt(tools_config, prompt_name, inputs) ==
    LET call == [NoCall EXCEPT !.fn = "get_prompt", !.prompt_name = prompt_name,
                               !.inputs = inputs]
    IN IF ~tools_config.loaded
       THEN [call EXCEPT !.raised = "AttributeError"]
       ELSE IF prompt_name \notin DOMAIN tools_config.prompts
       THEN [call EXCEPT !.raised = "ValueError"]
       ELSE [call EXCEPT !.messages =
                            render_messages(tools_config.prompts[prompt_name], inputs)]

\* prompts.get_prompt over PROMPT_TEMPLATES: the call, and the templates
\* after it (the template returned is the object held by the dict)
prompts_get_prompt(templates, prompt_name, inputs) ==
    LET call == [NoCall EXCEPT !.fn = "get_prompt", !.prompt_name = prompt_name,
                               !.inputs = inputs]
    IN IF prompt_name \notin DOMAIN templates
       THEN [call |-> [call EXCEPT !.raised = "ValueError"], templates |-> templates]
       ELSE IF prompt_name # "agent_juridique_expert"
       THEN [call |-> [call EXCEPT !.messages = templates[prompt_name]],
             templates |-> templates]
       ELSE LET t == format_user_messages(templates[prompt_name], question_of(inputs))
            IN [call |-> [call EXCEPT !.messages = t],
                templates |-> [templates EXCEPT ![prompt_name] = t]]

InitConfig ==
    /\ client = NoClient /\ api_client = FALSE /\ now = 0
    /\ callers = [c \in Callers |-> IdleCaller]
    /\ exchange = NoExchange /\ twin = NoClient
    /\ tool = NoTool /\ limiter = NoLimiter /\ factory = NoFactory
    /\ \E env \in SUBSET EnvNames : config = [NoConfig EXCEPT !.env = env]

\* settings = create_settings(), at the import of src.config
CreateSettings ==
    /\ ~config.created
    /\ LET settings == create_settings(config.env)
       IN config' = [config EXCEPT !.created = TRUE,
                                   !.api_key = settings.api_key,
                                   !.api_url = settings.api_url,
                                   !.yaml_config = settings.yaml_config]
    /\ UNCHANGED <<client, api_client, now, callers, exchange, twin, tool, limiter,
                   factory>>

\* PROMPT_TEMPLATES = load_prompt_templates(), at the import of prompts.py
ImportPrompts ==
    /\ config.created /\ ~config.imported
    /\ config' = [config EXCEPT
                    !.imported = TRUE,
                    !.prompt_templates =
                        [n \in {"agent_juridique_expert"} |-> ExpertTemplate]]
    /\ UNCHANGED <<client, api_client, now, callers, exchange, twin, tool, limiter,
                   factory>>

\* list_tools() of mcp_server / legifrance_tools
ListTools ==
    /\ config.created
    /\ config' = [config EXCEPT !.last = list_tools(config.yaml_config)]
    /\ UNCHANGED <<client, api_client, now, callers, exchange, twin, tool, limiter,
                   factory>>

\* get_prompt(prompt_name, inputs) of one of the three modules
GetPrompt(layer, prompt_name, inputs) ==
    /\ config.created
    /\ IF layer = "prompts"
       THEN /\ config.imported
            /\ LET r == prompts_get_prompt(config.prompt_templates, prompt_name, inputs)
               IN config' = [config EXCEPT !.last = r.call,
                                           !.prompt_templates = r.templates]
       ELSE config' = [config EXCEPT !.last =
                          get_prompt(config.yaml_config, prompt_name, inputs)]
    /\ UNCHANGED <<client, api_client, now, callers, exchange, twin, tool, limiter,
                   factory>>

NextConfig ==
    \/ CreateSettings
    \/ ImportPrompts
    \/ ListTools
    \/ \E layer \in GetPromptLayers, prompt_name \in PromptNames,
          inputs \in PromptInputs : GetPrompt(layer, prompt_name, inputs)

SpecConfig == InitConfig /\ [][NextConfig]_vars

(* ------------------ construction and the singleton --------------------- *)
\* instances followed, and failed calls of get_api_client counted
MaxInstances == 3
MaxFailedCalls == 3

\* Python truth value of an optional string argument
Truthy(v) == v.type # "NoneType" /\ v.value # ""

\* the keyword arguments LegifranceApiClient can be built with: each absent
\* (None), empty, or set
CtorArgs ==
    [token : {PyNone, PyStr(""), PyStr("tok0")},
     client_id : {PyNone, PyStr(""), PyStr("id")},
     client_secret : {PyNone, PyStr(""), PyStr("secret")},
     token_url : {PyNone, PyStr(""), PyStr("url")}]

\* what get_api_client passes: the strings of settings.legifrance, no token
SettingsArgs ==
    {a \in CtorArgs : /\ a.token = PyNone
                      /\ PyNone \notin {a.client_id, a.client_secret, a.token_url}}

init_branch_credentials_first(args) ==
    IF Truthy(args.client_id) /\ Truthy(args.client_secret) /\ Truthy(args.token_url)
    THEN "creds"
    ELSE IF Truthy(args.token)
    THEN "static"
    ELSE "ValueError"

\* the branch __init__ takes: if token / elif all([...]) / else
init_branch(args) ==
    IF Truthy(args.token)
    THEN "static"
    ELSE IF Truthy(args.client_id) /\ Truthy(args.client_secret) /\ Truthy(args.token_url)
    THEN "creds"
    ELSE "ValueError"

ctor_returns_keeping_global(f, instance) ==
    LET id == f.next_id
        g == [f EXCEPT !.next_id = @ + 1, !.call.pc = "done", !.call.id = id,
                       !.call.instance = instance]
    IN IF f.call.fn = "get_api_client"
       THEN [g EXCEPT !.built = @ + 1, !.returned = @ \cup {id}]
       ELSE g

\* __init__ returns: the instance exists; in get_api_client it is assigned
\* to _api_client and returned
ctor_returns(f, instance) ==
    LET id == f.next_id
        g == [f EXCEPT !.next_id = @ + 1, !.call.pc = "done", !.call.id = id,
                       !.call.instance = instance]
    IN IF f.call.fn = "get_api_client"
       THEN [g EXCEPT !.api_client = id, !.built = @ + 1,
                      !.returned = @ \cup {id}]
       ELSE g

\* an exception leaves __init__, and get_api_client with it
ctor_raises(f, exc) ==
    LET g == [f EXCEPT !.call.pc = "done", !.call.raised = exc]
    IN IF f.call.fn = "get_api_client"
       THEN [g EXCEPT !.failures = @ + 1]
       ELSE g

\* LegifranceApiClient.__init__ up to its first token call
init_client(f) ==
    LET args == f.call.args
    IN IF init_branch(args) = "static"
       THEN ctor_returns(f, constructed("static",
                                        TokenInfo(args.token.value, NoExpiry)))
       ELSE IF init_branch(args) = "creds"
       THEN [f EXCEPT !.call.pc = "tok_wait", !.call.tok_attempt = 1,
                      !.call.tok_calls = 1]
       ELSE ctor_raises(f, "ValueError")

\* get_api_client(): build the client if _api_client is None, return it
singleton(f, args) ==
    LET call == [NoConstruction EXCEPT !.fn = "get_api_client", !.args = args]
    IN IF f.api_client = 0
       THEN init_client([f EXCEPT !.constructions = @ + 1, !.call = call])
       ELSE [f EXCEPT !.call = [call EXCEPT !.pc = "done", !.id = f.api_client],
                      !.returned = @ \cup {f.api_client}]

\* one attempt of _get_access_token inside __init__ is answered by resp
ctor_token_response(f, t, resp) ==
    LET a == get_access_token_attempt(resp, t)
    IN IF a.ok
       THEN ctor_returns(f, constructed("creds", a.token_info))
       ELSE IF stop_after_attempt(f.call.tok_attempt)
       THEN ctor_raises(f, a.error.kind)
       ELSE [f EXCEPT !.call.pc = "tok_sleep"]

\* LegifranceApiClient(base_url, token=..., client_id=..., ...) called directly
NewClient(args) ==
    /\ factory.call.pc = "idle" /\ factory.next_id <= MaxInstances
    /\ factory' = init_client([factory EXCEPT
                     !.call = [NoConstruction EXCEPT !.fn = "LegifranceApiClient",
                                                     !.args = args]])
    /\ UNCHANGED <<client, api_client, now, callers, exchange, twin,
                   tool, limiter, config>>

\* get_api_client() is called; args: what the settings hold
SingletonGet(args) ==
    /\ factory.call.pc = "idle" /\ factory.next_id <= MaxInstances
    /\ factory.failures < MaxFailedCalls \/ factory.api_client # 0
    /\ factory' = singleton(factory, args)
    /\ UNCHANGED <<client, api_client, now, callers, exchange, twin,
                   tool, limiter, config>>

\* the token endpoint answers the constructor's token call
CtorTokenResponse(resp) ==
    /\ factory.call.pc = "tok_wait"
    /\ factory' = ctor_token_response(factory, now, resp)
    /\ UNCHANGED <<client, api_client, now, callers, exchange, twin,
                   tool, limiter, config>>

\* the constructor's thread wakes from tenacity's sleep and calls again
CtorTokenWake ==
    /\ factory.call.pc = "tok_sleep"
    /\ factory' = [factory EXCEPT !.call.pc = "tok_wait",
                                  !.call.tok_attempt = @ + 1,
                                  !.call.tok_calls = @ + 1]
    /\ UNCHANGED <<client, api_client, now, callers, exchange, twin,
                   tool, limiter, config>>

\* the caller takes the instance or the exception
CtorReturn ==
    /\ factory.call.pc = "done"
    /\ factory' = [factory EXCEPT !.call = NoConstruction]
    /\ UNCHANGED <<client, api_client, now, callers, exchange, twin,
                   tool, limiter, config>>

NextConstruct ==
    \/ \E args \in CtorArgs : NewClient(args)
    \/ \E args \in SettingsArgs : SingletonGet(args)
    \/ \E resp \in TokenResponses : CtorTokenResponse(resp)
    \/ CtorTokenWake
    \/ CtorReturn

SpecConstruct == Init /\ [][NextConstruct]_vars

(* ============================== claims ================================= *)
Finished(c) == callers[c].pc = "done"

\* the token endpoint answered 2xx with JSON whose access_token is missing,
\* empty or the literal string "null"
RejectedToken(r) ==
    /\ r.src = "token" /\ r.kind = "http" /\ r.status \in 200..299 /\ r.json
    /\ (~r.access_token.present \/ r.access_token.value \in {"", "null"})

\* C1: make_api_request returns the upstream JSON value or a mapping
\* {"error": message}; no exception escapes it, the first call (which
\* builds the singleton client and acquires its first token) included.
C1_NoExceptionEscapes ==
    \A c \in Callers :
        (Finished(c) /\ callers[c].op = "make_api_request")
            => callers[c].result.kind \in {"json", "error_map"}

\* C2: a token acquisition that ends on a 2xx response whose access_token is
\* missing, empty or "null" fails with AuthenticationError.
C2_RejectedTokenIsAuthenticationError ==
    \A c \in Callers :
        (Finished(c) /\ callers[c].op \in {"get_api_client", "request", "get"}
            /\ RejectedToken(callers[c].ended_by))
            => callers[c].result.kind = "AuthenticationError"

\* C3: a request / get (sync or async, the raw-text fallback of get
\* included) that ends on a 401 or 403 response from the resource endpoint
\* fails with AuthenticationError carrying that status code.
C3_Status401Or403IsAuthenticationError ==
    \A c \in Callers :
        (Finished(c) /\ callers[c].op \in {"request", "get"}
            /\ callers[c].ended_by.src \in {"data", "fallback"}
            /\ callers[c].ended_by.kind = "http"
            /\ callers[c].ended_by.status \in {401, 403})
            => /\ callers[c].result.kind = "AuthenticationError"
               /\ callers[c].result.status = callers[c].ended_by.status

\* the error kind the classification table gives a failed data response
TableKind(r) ==
    IF r.kind = "transport" THEN "LegifranceError"
    ELSE IF r.status \in {401, 403} THEN "AuthenticationError"
    ELSE IF r.status \notin 200..299 THEN "LegifranceError"
    ELSE "DataParsingError"

\* C4: with a valid token (no refresh during the call) request returns the
\* successful result of attempt n after exactly n transport calls and n - 1
\* backoff waits, n <= 3 (two failures then a success: 3 calls, 2 retries);
\* it raises only after exactly 3 transport calls, and then the classified
\* error of the third failure, unchanged in kind.
C4_ThreeAttemptsThenReraise ==
    \A c \in Callers :
        (Finished(c) /\ callers[c].op = "request" /\ callers[c].tok_calls = 0)
            => LET r == callers[c] IN
               /\ r.ended_by.src = "data"
               /\ r.data_calls = r.attempt
               /\ Len(r.delays) = r.attempt - 1
               /\ r.attempt <= 3
               /\ r.result.kind = "json" <=> (r.ended_by.status = 200 /\ r.ended_by.json)
               /\ r.result.kind # "json" =>
                     /\ r.data_calls = 3
                     /\ r.result.kind = TableKind(r.ended_by)
                     /\ r.result.kind \in APIErrorKinds

\* two failures and then a success, on the third transport call
C4_Witness ==
    \E c \in Callers :
        /\ Finished(c) /\ callers[c].op = "request" /\ callers[c].tok_calls = 0
        /\ callers[c].result.kind = "json" /\ callers[c].data_calls = 3

\* C5 (as amended): the wait before attempt n + 1 is 0.5 * 2^(n-1) floored at
\* 1 and capped at 10, so the two backoff delays of a request or of a token
\* acquisition are 1 and then 1 seconds (delays are in half-seconds), and
\* every delay lies in [1, 10] seconds.
C5_BackoffDelays ==
    /\ \A c \in Callers :
          /\ callers[c].delays \in {<<>>, <<2>>, <<2, 2>>}
          /\ callers[c].tok_delays \in {<<>>, <<2>>, <<2, 2>>}
          /\ callers[c].pc \in {"data_sleep", "tok_sleep"}
                => callers[c].wake_at <= now + 1
    /\ \A n \in 1..MaxAttemptNumber :
          /\ wait_exponential(n) >= 1 * HalvesPerSecond
          /\ wait_exponential(n) <= 10 * HalvesPerSecond
    /\ wait_exponential(3) = 2 * HalvesPerSecond

\* a request that failed twice and then succeeded
C5_Witness ==
    \E c \in Callers :
        /\ Finished(c) /\ callers[c].result.kind = "json"
        /\ Len(callers[c].delays) = 2

\* C5 as stated: the two backoff delays are 1 and then 2 seconds
C5_DelaysOneThenTwo ==
    \A c \in Callers :
        Len(callers[c].delays) = 2
            => callers[c].delays = <<1 * HalvesPerSecond, 2 * HalvesPerSecond>>

\* C6 as stated: a request that starts with an expired token makes exactly
\* one token call, and its data request carries the new token
C6_ExactlyOneTokenCall ==
    \A c \in Callers :
        (callers[c].start_expired /\ callers[c].pc = "data_wait")
            => /\ callers[c].tok_calls = 1
               /\ callers[c].sent_auth = Bearer(callers[c].got)

\* C6 (as amended): a request that starts with an expired token calls the
\* token endpoint before it dispatches any data request, at most 3 times per
\* attempt of the request; when the first token call is answered with a
\* usable token, the first data request is dispatched after exactly one token
\* call and carries 'Bearer <new token>'.
C6_RefreshBeforeDispatch ==
    \A c \in Callers :
        (callers[c].start_expired /\ callers[c].pc = "data_wait")
            => LET r == callers[c] IN
               /\ r.tok_calls >= 1
               /\ r.tok_calls <= 3 * r.attempt
               /\ (r.data_calls = 1 /\ r.first_tok_ok)
                     => /\ r.tok_calls = 1
                        /\ r.got = client.token_info.access_token
                        /\ r.sent_auth = Bearer(r.got)

\* the first data request after one successful refresh
C6_Witness ==
    \E c \in Callers :
        /\ callers[c].start_expired /\ callers[c].pc = "data_wait"
        /\ callers[c].data_calls = 1 /\ callers[c].first_tok_ok
        /\ callers[c].tok_calls = 1
        /\ callers[c].sent_auth = Bearer(callers[c].got)

\* every handle that exists and is open carries the current token
HeadersCurrent(cl) ==
    LET h == Bearer(cl.token_info.access_token)
    IN /\ cl.headers_auth = h
       /\ cl.client_auth = h
       /\ cl.async_state = "open" => cl.async_auth = h

\* C7: once the client is built, the stored default headers, the sync handle
\* and the async handle (if it exists and is open) carry the same
\* Authorization value, 'Bearer ' + token_info.access_token, and a request
\* in flight was dispatched with it.
C7_HandlesCarryCurrentToken ==
    client.mode # "none"
        => /\ HeadersCurrent(client)
           /\ \A c \in Callers :
                 callers[c].pc \in {"data_wait", "fb_wait"}
                    => callers[c].sent_auth = Bearer(client.token_info.access_token)

\* an async request re-dispatched after a refresh that found the async handle
\* in existence
C7_Witness ==
    \E c \in Callers :
        /\ callers[c].async /\ callers[c].pc = "data_wait"
        /\ ~callers[c].start_expired /\ callers[c].tok_calls >= 1
        /\ callers[c].data_calls >= 2
        /\ client.async_state = "open"
        /\ callers[c].sent_auth = Bearer(callers[c].got)

\* C8: with several callers on the async path, every refresh replaces
\* token_info and propagates its bearer header in one step, every handle
\* carries the current token in every state, and every data request is
\* dispatched with the header of the token current at dispatch time.
C8_AtomicRefreshAndCurrentDispatch ==
    /\ [](/\ HeadersCurrent(client)
          /\ \A c \in Callers :
                callers[c].pc = "data_wait"
                   => /\ callers[c].sent_tok # ""
                      /\ callers[c].sent_auth = Bearer(callers[c].sent_tok))
    /\ [][client'.token_info # client.token_info => HeadersCurrent(client')]_vars
    /\ [][\A c \in Callers :
             callers'[c].data_calls > callers[c].data_calls
                => callers'[c].sent_auth = Bearer(client'.token_info.access_token)]_vars

\* both callers saw the token expired, both refreshed, and the request of
\* one is in flight with the header the other's refresh replaced
C8_Witness ==
    /\ \A c \in Callers : callers[c].start_expired /\ callers[c].pc = "data_wait"
    /\ \E c, d \in Callers :
          /\ callers[c].got # "" /\ callers[d].got # ""
          /\ callers[c].got # callers[d].got
          /\ callers[c].sent_auth # Bearer(client.token_info.access_token)

\* C9: is_expired() holds exactly when expires_at is set and now is later
\* than processing time + expires_in - 60; a token with expires_in = 3600
\* processed at T is not expired up to and including T + 3540 and expired
\* from T + 3541 on.
C9_ExpiredAfterLifetimeMinusMargin ==
    exchange.state = "processed"
        => LET T == exchange.processed_at
               life == IF exchange.expires_in.kind = "absent" THEN 3600
                       ELSE exchange.expires_in.value
               expired == is_token_expired(client.token_info, now)
           IN /\ client.token_info.expires_at.set
              /\ client.token_info.expires_at.at = T + life - 60
              /\ expired <=> now > T + life - 60
              /\ life = 3600 => (expired <=> now > T + 3540)

\* the first second at which a 3600-second token is expired
C9_Witness ==
    /\ exchange.state = "processed"
    /\ exchange.expires_in = [kind |-> "int", value |-> 3600]
    /\ now = exchange.processed_at + 3541
    /\ is_token_expired(client.token_info, now)

C11_StaticTokenNeverRefreshed ==
    /\ [](client.mode = "static" =>
             /\ ~client.token_info.expires_at.set
             /\ \A t \in 0..MaxTime : ~is_token_expired(client.token_info, t)
             /\ \A c \in Callers :
                   /\ callers[c].pc \notin {"tok_wait", "tok_sleep"}
                   /\ callers[c].tok_calls = 0)
    /\ [][client.mode = "static" =>
             /\ client'.mode = "static"
             /\ client'.token_info = client.token_info
             /\ client'.headers_auth = client.headers_auth
             /\ client'.client_auth = client.headers_auth
             /\ client'.async_state = "open"
                   => client'.async_auth = client.headers_auth]_vars

\* a request of the static-token client that was answered 401 three times,
\* seconds after construction
C11_Witness ==
    /\ client.mode = "static" /\ now >= 2
    /\ \E c \in Callers :
          /\ Finished(c) /\ callers[c].op = "request"
          /\ callers[c].result.kind = "AuthenticationError"
          /\ callers[c].ended_by.status = 401
          /\ callers[c].data_calls = 3 /\ callers[c].tok_calls = 0

\* a 2xx response whose body is not valid JSON
NonJson2xx(r) == r.kind = "http" /\ r.status \in 200..299 /\ ~r.json

\* C12: get / get_async never fails with DataParsingError and never ends on
\* the JSON decode failure of a 2xx response: it asks again for the raw text,
\* and when that request is answered 2xx it returns the response text.
C12_GetReturnsTextOfNonJsonBody ==
    \A c \in Callers :
        (Finished(c) /\ callers[c].op = "get")
            => LET r == callers[c] IN
               /\ r.result.kind # "DataParsingError"
               /\ r.ended_by.src = "data" => ~NonJson2xx(r.ended_by)
               /\ (r.ended_by.src = "fallback" /\ r.ended_by.kind = "http"
                     /\ r.ended_by.status \in 200..299)
                     => r.result.kind = "text"

\* a get answered 2xx with a non-JSON body every time returned the text
C12_Witness ==
    \E c \in Callers :
        /\ Finished(c) /\ callers[c].op = "get"
        /\ callers[c].ended_by.src = "fallback" /\ NonJson2xx(callers[c].ended_by)
        /\ callers[c].result.kind = "text"

\* C13: post / post_async never issues the raw-text fallback request and
\* never returns text; when its last attempt is answered 2xx with a body that
\* is not valid JSON it has made 3 attempts and fails with DataParsingError.
C13_PostHasNoTextFallback ==
    \A c \in Callers :
        callers[c].op = "post"
            => LET r == callers[c] IN
               /\ r.pc # "fb_wait" /\ r.phase # "fallback"
               /\ r.result.kind # "text"
               /\ (Finished(c) /\ r.ended_by.src = "data" /\ NonJson2xx(r.ended_by))
                     => /\ r.result.kind = "DataParsingError"
                        /\ r.data_calls = 3

\* a post answered 2xx with a non-JSON body on each of its three attempts
C13_Witness ==
    \E c \in Callers :
        /\ Finished(c) /\ callers[c].op = "post"
        /\ NonJson2xx(callers[c].ended_by) /\ callers[c].data_calls = 3
        /\ callers[c].result.kind = "DataParsingError"

\* the operations that send a JSON body built from the caller's arguments
SendsPayload == {"post", "make_api_request", "call_tool", "execute_api_request"}

\* C14 as stated: on every path that reaches the resource endpoint (post,
\* make_api_request, call_tool, execute_api_request) the JSON body sent has
\* no null-valued top-level key.
C14_NoNullKeySent ==
    \A c \in Callers :
        (callers[c].op \in SendsPayload /\ callers[c].data_calls > 0)
            => \A k \in DOMAIN callers[c].body : callers[c].body[k] # "null"

\* C14 (as amended): call_tool and execute_api_request remove the
\* null-valued top-level keys of the arguments before the payload reaches
\* post_async, so the body they send holds exactly the non-null members;
\* post / post_async and make_api_request send the payload as given, a
\* None-valued key as JSON null.
C14_NullKeysStrippedByToolLayer ==
    \A c \in Callers :
        (callers[c].op \in SendsPayload /\ callers[c].data_calls > 0)
            => LET r == callers[c] IN
               /\ r.op \in ToolOps =>
                     /\ DOMAIN r.body = {k \in DOMAIN r.arguments :
                                            r.arguments[k] # PyNone}
                     /\ \A k \in DOMAIN r.body :
                           /\ r.body[k] # "null"
                           /\ r.body[k] = json_value(r.arguments[k])
               /\ r.op \notin ToolOps =>
                     /\ DOMAIN r.body = DOMAIN r.arguments
                     /\ \A k \in DOMAIN r.body :
                           r.body[k] = "null" <=> r.arguments[k] = PyNone

\* call_tool was given {"search": "bail", "code_name": None} and its request
\* is in flight with the body {"search": "bail"}
C14_Witness ==
    \E c \in Callers :
        /\ callers[c].op = "call_tool" /\ callers[c].pc = "data_wait"
        /\ callers[c].arguments = [k \in PayloadKeys |->
                                     IF k = "search" THEN PyStr("bail") ELSE PyNone]
        /\ DOMAIN callers[c].body = {"search"}
        /\ callers[c].body["search"] = "\"bail\""

\* C15: a request / get / post that ends on a response of the resource
\* endpoint (the raw-text fallback request of get included) whose status is
\* neither 2xx nor 401/403 fails with LegifranceError whose details carry
\* the status code and the response body.
C15_OtherStatusIsLegifranceError ==
    \A c \in Callers :
        (Finished(c) /\ callers[c].op \in {"request", "get", "post"}
            /\ callers[c].ended_by.src \in {"data", "fallback"}
            /\ callers[c].ended_by.kind = "http"
            /\ callers[c].ended_by.status \notin 200..299
            /\ callers[c].ended_by.status \notin {401, 403})
            => /\ callers[c].result.kind = "LegifranceError"
               /\ callers[c].result.variant = "status"
               /\ callers[c].result.status = callers[c].ended_by.status

\* a call the client's caller sees end on an answer of the token endpoint
EndedByToken(c) ==
    /\ Finished(c) /\ callers[c].op \in {"get_api_client", "request", "get", "post"}
    /\ callers[c].ended_by.src = "token"

\* C16: a token acquisition that fails raises AuthenticationError (with the
\* status) when the token endpoint answered 401/403, LegifranceError carrying
\* the status code and body when it answered another non-2xx status, the
\* connectivity LegifranceError carrying the cause when the transport failed,
\* and in every case exactly one of AuthenticationError and LegifranceError.
C16_TokenFailureClassification ==
    \A c \in Callers :
        EndedByToken(c)
            => LET r == callers[c].result
                   e == callers[c].ended_by
               IN /\ r.kind \in {"AuthenticationError", "LegifranceError"}
                  /\ (e.kind = "http" /\ e.status \in {401, 403})
                        => /\ r.kind = "AuthenticationError"
                           /\ r.variant = "status" /\ r.status = e.status
                  /\ (e.kind = "http" /\ e.status \notin 200..299
                        /\ e.status \notin {401, 403})
                        => /\ r.kind = "LegifranceError"
                           /\ r.variant = "status" /\ r.status = e.status
                  /\ e.kind = "transport"
                        => /\ r.kind = "LegifranceError"
                           /\ r.variant = "connect" /\ r.cause = "RequestError"

\* the construction of the singleton failed on a 403 of the token endpoint
C16_Witness ==
    \E c \in Callers :
        /\ EndedByToken(c) /\ callers[c].op = "get_api_client"
        /\ callers[c].ended_by.status = 403
        /\ callers[c].result.kind = "AuthenticationError"

\* C17: token acquisition retries authentication failures like any other:
\* one invocation of _get_access_token (the one of the constructor) that
\* fails has contacted the token endpoint exactly 3 times, never fewer, and
\* when the last answer is 401/403 it raises AuthenticationError.
C17_AuthFailureRetriedThreeTimes ==
    \A c \in Callers :
        /\ (callers[c].op = "get_api_client" /\ callers[c].pc = "tok_sleep")
              => callers[c].tok_calls < 3
        /\ (EndedByToken(c) /\ callers[c].op = "get_api_client")
              => /\ callers[c].tok_calls = 3
                 /\ callers[c].ended_by.status \in {401, 403}
                       => /\ callers[c].result.kind = "AuthenticationError"
                          /\ callers[c].result.status = callers[c].ended_by.status

\* the third 401 of the token endpoint ended the construction
C17_Witness ==
    \E c \in Callers :
        /\ EndedByToken(c) /\ callers[c].op = "get_api_client"
        /\ callers[c].ended_by.status = 401 /\ callers[c].tok_calls = 3
        /\ callers[c].result.kind = "AuthenticationError"

\* C18: a request / get / post that ends on a failure of the token refresh
\* raises the error the token manager classified (kind, status, variant and
\* cause unchanged), never DataParsingError or another re-classification by
\* the data-request handler, and never a value.
C18_TokenFailurePropagatesUnchanged ==
    \A c \in Callers :
        (EndedByToken(c) /\ callers[c].op \in {"request", "get", "post"})
            => LET r == callers[c]
                   a == token_try_block(r.ended_by, now)
               IN /\ ~a.ok
                  /\ r.result = handle_token_error(a.exc, a.status)
                  /\ r.result.kind \in {"AuthenticationError", "LegifranceError"}
                  /\ r.data_calls <= r.attempt
                  /\ r.op # "get" => r.data_calls < r.attempt

\* a refresh inside request failed on a token response that is not JSON
C18_Witness ==
    \E c \in Callers :
        /\ EndedByToken(c) /\ callers[c].op = "request"
        /\ callers[c].ended_by.status = 200 /\ ~callers[c].ended_by.json
        /\ callers[c].result.kind = "LegifranceError"
        /\ callers[c].result.cause = "ValueError"

C20_HandlesLazyAndReleasedAtScopeExit ==
    /\ [](client.scope \in {"exited with", "exited async with"}
             => client.async_state # "open")
    /\ [][(client.async_state = "none" /\ client'.async_state # "none")
             => \E c \in Callers :
                   /\ callers'[c].async
                   /\ callers'[c].data_calls = callers[c].data_calls + 1]_vars


\* C21: the tool layer never raises and never returns a structured error:
\* for every tool name, every arguments value and every outcome of the
\* upstream call (a JSON value, text, an {"error": ...} value, an exception)
\* call_tool / execute_api_request returns exactly one text content item,
\* and a caught exception is rendered as text prefixed with the tool or
\* operation name.
C21_ToolLayerReturnsOneText ==
    tool.pc = "done"
        => LET r == tool.returned IN
           /\ r.raised = ""
           /\ Len(r.content) = 1
           /\ r.content[1].type = "text"
           /\ (tool.upstream.kind = "raise" \/ tool.upstream.shape = "error_obj")
                 => /\ r.content[1].prefix # ""
                    /\ r.content[1].subject = tool.name
                    /\ r.content[1].detail
                          \in UpstreamExceptions
                              \cup {"AttributeError", "ValidationError"}

\* the upstream call of call_tool("rechercher_code", ...) raised
\* LegifranceError and the caller got the one message that names the tool
C21_Witness ==
    /\ tool.pc = "done" /\ tool.layer = "legifrance_tools.call_tool"
    /\ tool.name = "rechercher_code"
    /\ tool.upstream = UpstreamRaise("LegifranceError")
    /\ tool.returned.content =
          <<TextContent("Erreur API lors de l'execution de ", "rechercher_code",
                        "LegifranceError")>>


\* the starts of the wrapped function that fall in the window of length
\* period beginning at clock value t
StartsInWindow(t) ==
    {i \in DOMAIN limiter.starts :
        limiter.starts[i] >= t /\ limiter.starts[i] < t + RatePeriod}

\* C22: for every interleaving of concurrent callers of the decorated
\* coroutine, at most calls (5) invocations of the wrapped function are
\* started within any single window of length period.
C22_AtMostCallsPerWindow ==
    \A t \in 0..MaxRateClock : Cardinality(StartsInWindow(t)) <= RateCalls


\* the parts of a text
Parts(text) == {text[i] : i \in DOMAIN text}

\* C23: get_prompt("agent_juridique_expert", {"question": q}) returns a
\* mapping with exactly two messages whose second message has role 'user'
\* and a single text item containing q; get_prompt with a prompt name that
\* is not configured raises ValueError.
C23_GetPromptRendersQuestion ==
    config.last.fn = "get_prompt"
        => LET r == config.last IN
           /\ (r.prompt_name = "agent_juridique_expert" /\ r.inputs # <<>>)
                 => /\ r.raised = ""
                    /\ Len(r.messages) = 2
                    /\ r.messages[2].role = "user"
                    /\ Len(r.messages[2].content) = 1
                    /\ r.messages[2].content[1].type = "text"
                    /\ question_of(r.inputs) \in Parts(r.messages[2].content[1].text)
           /\ r.prompt_name = "prompt_inconnu" => r.raised = "ValueError"

\* C24: with the configuration produced by create_settings the catalog
\* (settings.yaml_config) is not None and list_tools returns exactly the
\* three tools rechercher_dans_texte_legal, rechercher_code and
\* rechercher_jurisprudence_judiciaire.
C24_CatalogLoadedWithThreeTools ==
    config.created
        => /\ config.yaml_config.loaded
           /\ config.last.fn = "list_tools"
                 => config.last.raised = "" /\ config.last.tools = KnownTools


\* C25: every failure of a data-request attempt inside request /
\* request_async is classified into exactly one of AuthenticationError,
\* LegifranceError or DataParsingError per the classification table (status
\* 401/403; other non-2xx; transport failure; invalid JSON; any other
\* exception as generic LegifranceError carrying the cause), so no exception
\* that is not an APIError subclass leaves request, request_async, post or
\* post_async because of a failed data attempt.
C25_DataFailureClassified ==
    \A c \in Callers :
        (Finished(c) /\ callers[c].op \in {"request", "post"}
                     /\ callers[c].ended_by.src = "data"
                     /\ callers[c].result.kind # "json")
            => LET r == callers[c].result
                   e == callers[c].ended_by
               IN /\ r.kind \in APIErrorKinds
                  /\ r.kind = TableKind(e)
                  /\ e.kind = "transport"
                        => r.variant = "connect" /\ r.cause = "RequestError"
                  /\ e.kind = "exception"
                        => r.variant = "unexpected" /\ r.cause = "RuntimeError"
                  /\ (e.kind = "http" /\ e.status \notin 200..299)
                        => r.variant = "status" /\ r.status = e.status
                  /\ (e.kind = "http" /\ e.status \in 200..299)
                        => r.variant = "parse" /\ r.cause = "ValueError"

\* request_async ended on an exception that is none of the listed kinds and
\* raised the generic LegifranceError
C25_Witness ==
    /\ Finished(2) /\ callers[2].op = "request" /\ callers[2].async
    /\ callers[2].ended_by.src = "data" /\ callers[2].ended_by.kind = "exception"
    /\ callers[2].result.kind = "LegifranceError"
    /\ callers[2].result.variant = "unexpected"

\* C26 as stated: every call to request / request_async ends after at most
\* 3 data transport calls and at most 2 backoff waits.
C26_ThreeCallsTwoWaits ==
    \A c \in Callers :
        callers[c].op = "request"
            => callers[c].data_calls <= 3 /\ callers[c].waits <= 2

\* C26 (as amended): every call to request / request_async ends after at
\* most 3 attempts, 3 data transport calls and 2 backoff waits between its
\* attempts, whatever the transport outcomes; a token acquisition made
\* inside an attempt sleeps at most twice more, so the call sleeps at most 8
\* times in all, and a sleeping call always has an attempt left to make.
C26_BoundedAttemptsAndWaits ==
    \A c \in Callers :
        callers[c].op = "request"
            => LET r == callers[c] IN
               /\ r.attempt <= 3 /\ r.data_calls <= 3 /\ r.data_calls <= r.attempt
               /\ Len(r.delays) <= 2
               /\ Len(r.delays) = (IF r.pc = "data_sleep" THEN r.attempt
                                   ELSE r.attempt - 1)
               /\ r.tok_attempt <= 3 /\ Len(r.tok_delays) <= 2
               /\ r.waits - Len(r.delays) <= 2 * r.attempt
               /\ r.waits <= 8
               /\ r.pc = "data_sleep" => r.attempt < 3
               /\ r.pc = "tok_sleep" => r.tok_attempt < 3
               /\ r.pc \in {"tok_wait", "tok_sleep", "data_wait", "data_sleep", "done"}

\* request_async raised after 3 data transport calls and 2 waits between
\* its attempts, having slept twice more inside a token acquisition
C26_Witness ==
    /\ Finished(2) /\ callers[2].op = "request" /\ callers[2].async
    /\ callers[2].result.kind \in APIErrorKinds
    /\ callers[2].data_calls = 3 /\ Len(callers[2].delays) = 2
    /\ callers[2].waits = 4

\* C27: during one call to request with an expired token, the token
\* endpoint is contacted at most 3 times in total, whatever it answers.
C27_AtMostThreeTokenCalls ==
    \A c \in Callers :
        (callers[c].op = "request" /\ callers[c].start_expired)
            => callers[c].tok_calls <= 3

\* the client a caller of the sync / async pair works on
ClientOf(c) == IF c = 1 THEN client ELSE twin

\* C28: expiry is checked before every outbound data transport call,
\* retries included: when the token has expired while a request waited in
\* backoff, the next attempt first calls the token endpoint and sends no
\* data request meanwhile, and the data request that follows the refresh
\* leaves with the bearer header of the new token; the same holds before
\* the raw-text fallback request of get.
C28_ExpiryCheckedOnRetry ==
    [][\A c \in Callers :
          LET r == callers[c]
              n == callers'[c]
          IN /\ (r.pc = "data_sleep" /\ n.pc # "data_sleep")
                   => IF is_token_expired(ClientOf(c).token_info, now)
                      THEN /\ n.pc = "tok_wait" /\ n.tok_calls = r.tok_calls + 1
                           /\ n.data_calls = r.data_calls
                      ELSE n.pc = "data_wait" /\ n.data_calls = r.data_calls + 1
             /\ (r.pc = "data_wait" /\ n.pc = "fb_wait")
                   => ~is_token_expired(ClientOf(c).token_info, now)
             /\ (r.pc = "tok_wait" /\ n.pc \in {"data_wait", "fb_wait"})
                   => /\ n.sent_auth = Bearer(n.got)
                      /\ ClientOf(c)'.token_info.access_token = n.got
                      /\ n.sent_tok = n.got
                      /\ n.data_calls = r.data_calls + 1]_vars

\* the token was valid when request was called, expired during a backoff,
\* and the second attempt is in flight with the header of the token the
\* refresh obtained
C28_Witness ==
    /\ callers[1].op = "request" /\ callers[1].pc = "data_wait"
    /\ ~callers[1].start_expired /\ callers[1].attempt = 2
    /\ callers[1].tok_calls = 1 /\ callers[1].got = "tokB"
    /\ callers[1].sent_auth = Bearer("tokB")
    /\ callers[2].sent_auth = Bearer("tokB")
    /\ client.token_info.access_token = "tokB"

\* C29: a refresh that fails leaves the client state unchanged: while token
\* acquisition runs and when it gives up, token_info, the stored default
\* headers and the Authorization header of both transport handles keep
\* their values, and no data request is dispatched by that attempt.
C29_FailedRefreshChangesNothing ==
    [][\A c \in Callers :
          LET r == callers[c]
              n == callers'[c]
          IN (r.pc \in {"tok_wait", "tok_sleep"} /\ r.phase # "ctor"
                 /\ n.pc \notin {"data_wait", "fb_wait"})
                => /\ ClientOf(c)' = ClientOf(c)
                   /\ n.data_calls = r.data_calls]_vars

\* a request called with an expired token gave up after the token endpoint
\* failed three times in each of its three attempts: no data request was
\* sent and the client still holds the old token and headers
C29_Witness ==
    /\ Finished(1) /\ callers[1].op = "request" /\ callers[1].start_expired
    /\ callers[1].ended_by.src = "token" /\ callers[1].tok_calls = 9
    /\ callers[1].data_calls = 0
    /\ client.token_info.access_token = "tokA"
    /\ client.headers_auth = Bearer("tokA") /\ client.client_auth = Bearer("tokA")
    /\ twin.token_info.access_token = "tokA"
    /\ twin.async_state = "none"

\* C30: immediately after _ensure_token / _ensure_token_async returns
\* normally the current token is not expired, for every expires_in the
\* server declares, so no data request is dispatched with a token the
\* client itself considers expired at the time of the check.
C30_TokenFreshAfterEnsure ==
    \A c \in Callers :
        callers[c].pc \in {"data_wait", "fb_wait"}
            => ~is_token_expired(ClientOf(c).token_info, now)

\* the answers by which the resource endpoint rejects the bearer token
AuthRejections == {resp \in DataResponses : resp.status \in {401, 403}}

\* C31: a 401/403 answer to a data request never changes token state: the
\* attempt ends in a backoff sleep or in the AuthenticationError leaving the
\* call, without a token call and with token_info and every Authorization
\* header as they were; the retry that follows the sleep is sent with the
\* bearer header of the same token unless that token has passed expires_at.
C31_RejectionLeavesTokenState ==
    [][\A c \in Callers :
          LET r == callers[c]
              n == callers'[c]
              cl == ClientOf(c)
          IN /\ r.pc = "data_wait"
                   => \A resp \in AuthRejections :
                         LET m == data_response(r, cl, now, resp)
                         IN /\ m.cl = cl
                            /\ m.rec.tok_calls = r.tok_calls
                            /\ m.rec.data_calls = r.data_calls
                            /\ m.rec.pc = (IF r.attempt < 3 THEN "data_sleep"
                                           ELSE "done")
                            /\ m.rec.pc = "done"
                                  => /\ m.rec.result.kind = "AuthenticationError"
                                     /\ m.rec.result.status = resp.status
             /\ (r.pc = "data_wait" /\ n.pc \in {"data_sleep", "done"})
                   => ClientOf(c)' = cl /\ n.tok_calls = r.tok_calls
             /\ (r.pc = "data_sleep" /\ n.pc = "data_sleep")
                   => ClientOf(c)' = cl
             /\ (r.pc = "data_sleep" /\ n.pc # "data_sleep")
                   => IF is_token_expired(cl.token_info, now)
                      THEN n.pc = "tok_wait"
                      ELSE /\ n.pc = "data_wait"
                           /\ ClientOf(c)'.token_info = cl.token_info
                           /\ n.tok_calls = r.tok_calls
                           /\ n.sent_tok = cl.token_info.access_token
                           /\ n.sent_auth = Bearer(cl.token_info.access_token)]_vars

\* a request answered 401 at each of its three attempts raised
\* AuthenticationError without any token call; the client holds the token
\* and the headers it started with
C31_Witness ==
    /\ Finished(1) /\ callers[1].op = "request" /\ ~callers[1].start_expired
    /\ callers[1].ended_by.src = "data" /\ callers[1].ended_by.status = 401
    /\ callers[1].result.kind = "AuthenticationError"
    /\ callers[1].data_calls = 3 /\ callers[1].tok_calls = 0
    /\ client.token_info.access_token = "tokA"
    /\ client.headers_auth = Bearer("tokA") /\ client.client_auth = Bearer("tokA")
    /\ twin.token_info.access_token = "tokA" /\ twin.async_auth = Bearer("tokA")

\* a 2xx answer whose body is not valid JSON
NonJsonBody == [kind |-> "http", status |-> 200, json |-> FALSE]

C33_SingletonOverAllCalls ==
    /\ factory.built <= 1
    /\ Cardinality(factory.returned) <= 1
    /\ factory.returned = (IF factory.api_client = 0 THEN {} ELSE {factory.api_client})
    /\ factory.built = (IF factory.api_client = 0 THEN 0 ELSE 1)
    /\ factory.constructions =
          factory.failures + factory.built
          + (IF factory.call.fn = "get_api_client"
                /\ factory.call.pc \in {"tok_wait", "tok_sleep"} THEN 1 ELSE 0)
    /\ (factory.call.fn = "get_api_client" /\ factory.call.pc = "done")
          => IF factory.call.raised = ""
             THEN factory.call.id = factory.api_client /\ factory.api_client # 0
             ELSE /\ factory.api_client = 0 /\ factory.call.id = 0
                  /\ factory.call.raised \in {"ValueError", "AuthenticationError",
                                               "LegifranceError"}

\* get_api_client raised twice (its constructor ran each time), then built
\* the client, and a later call returned that same instance without
\* running the constructor
C33_Witness ==
    /\ factory.failures = 2 /\ factory.constructions = 3 /\ factory.built = 1
    /\ factory.call.fn = "get_api_client" /\ factory.call.pc = "done"
    /\ factory.call.tok_calls = 0 /\ factory.call.raised = ""
    /\ factory.call.id = factory.api_client /\ factory.api_client # 0

\* a constructor run in progress or just ended (a call of get_api_client that
\* found the cached instance ran no constructor)
ConstructorRan ==
    /\ factory.call.pc # "idle"
    /\ ~(factory.call.pc = "done" /\ factory.call.raised = ""
            /\ factory.call.instance.mode = "none")

\* C37: client construction: with a non-empty static token the client uses
\* it and makes no credential exchange, whatever credentials are supplied
\* with it; with no token and client_id, client_secret and token_url all
\* non-empty the constructor calls the token endpoint and returns only with
\* the token it acquired; in every other case it raises ValueError without
\* calling the token endpoint.
C37_ConstructionBranches ==
    ConstructorRan =>
        LET call == factory.call
            a == call.args
            Given(v) == v \notin {PyNone, PyStr("")}
            credentials == Given(a.client_id) /\ Given(a.client_secret)
                              /\ Given(a.token_url)
        IN /\ Given(a.token)
                => /\ call.pc = "done" /\ call.raised = "" /\ call.tok_calls = 0
                   /\ call.instance.mode = "static"
                   /\ call.instance.token_info = TokenInfo(a.token.value, NoExpiry)
                   /\ call.instance.headers_auth = Bearer(a.token.value)
                   /\ call.instance.client_auth = Bearer(a.token.value)
           /\ (~Given(a.token) /\ credentials)
                => /\ call.tok_calls >= 1
                   /\ (call.pc = "done" /\ call.raised = "")
                         => /\ call.instance.mode = "creds"
                            /\ call.instance.token_info.access_token \in GoodTokens
                            /\ call.instance.token_info.expires_at.set
                            /\ call.instance.headers_auth =
                                  Bearer(call.instance.token_info.access_token)
                            /\ call.instance.client_auth = call.instance.headers_auth
                   /\ (call.pc = "done" /\ call.raised # "")
                         => /\ call.raised \in {"AuthenticationError", "LegifranceError"}
                            /\ call.tok_calls = 3
                            /\ call.instance = NoClient
           /\ (~Given(a.token) /\ ~credentials)
                => /\ call.pc = "done" /\ call.raised = "ValueError"
                   /\ call.tok_calls = 0 /\ call.instance = NoClient

\* a client built with a static token and with all three credentials: it
\* holds the static token and the token endpoint was not called
C37_Witness ==
    /\ factory.call.fn = "LegifranceApiClient" /\ factory.call.pc = "done"
    /\ factory.call.args = [token |-> PyStr("tok0"), client_id |-> PyStr("id"),
                            client_secret |-> PyStr("secret"),
                            token_url |-> PyStr("url")]
    /\ factory.call.instance.mode = "static"
    /\ factory.call.instance.token_info.access_token = "tok0"
    /\ factory.call.tok_calls = 0

\* C34: with sequential callers and for every spacing of the call times, a
\* call arriving exactly period after the window start included, the window
\* counter satisfies 1 <= calls_made <= calls after every call: a call that
\* finds the counter at capacity waits for the rest of the window or starts
\* a new window before it proceeds.
C34_CounterWithinCapacity ==
    /\ limiter.calls_made <= RateCalls
    /\ \A c \in RateCallers :
          limiter.coroutines[c].pc = "running" => limiter.calls_made >= 1

\* C35: the result of get_prompt depends only on its arguments, not on
\* earlier calls: every call get_prompt(name, {"question": q}) that returns
\* gives the configured template with q substituted, also after a call with
\* another question, and every call leaves the stored templates unchanged.
C35_GetPromptIsPure ==
    /\ config.imported
          => config.prompt_templates =
                [n \in {"agent_juridique_expert"} |-> ExpertTemplate]
    /\ (/\ config.last.fn = "get_prompt" /\ config.last.raised = ""
        /\ config.last.prompt_name = "agent_juridique_expert"
        /\ config.last.inputs # <<>>)
          => config.last.messages = render_messages(ExpertTemplate, config.last.inputs)

\* the last segment of a requested URL: the endpoint
Last(path) == path[Len(path)]

\* C36: all tool layers route a given tool name to the same upstream
\* resource: rechercher_dans_texte_legal, rechercher_code and
\* rechercher_jurisprudence_judiciaire reach the endpoints loda, code and
\* juri under the same prefix through legifrance_tools.call_tool,
\* mcp_server.call_tool and the decorated tool functions (the prefix of
\* mcp_server is part of its configured base URL); any other name reaches
\* no endpoint and yields the 'Outil inconnu' error text.
C36_SameRouteInAllLayers ==
    /\ (tool.pc = "awaiting" /\ tool.tool_name \in KnownTools)
          => /\ Last(tool.url.path) = endpoint_of(tool.tool_name)
             /\ \A layer \in ToolLayers :
                   LET other == route(layer, tool.tool_name)
                   IN /\ Last(other.path) = Last(tool.url.path)
                      /\ other.base = tool.url.base => other = tool.url
    /\ (tool.pc = "done" /\ tool.tool_name \notin KnownTools \cup {""})
          => /\ tool.url = NoRoute
             /\ tool.returned =
                   ToolReturned(<<TextContent("Erreur lors de l'execution de ",
                                              tool.tool_name, "ValueError")>>)

\* clean_dict has run in the call in progress: call_tool passed its match
\* statement with a dict, or mcp_server.make_api_request was entered
Cleaned ==
    /\ tool.pc \in {"awaiting", "done"}
    /\ tool.layer \in {"legifrance_tools.call_tool", "mcp_server.call_tool"}
    /\ tool.endpoint # "" /\ tool.arguments.type = "dict"

\* C38: clean_dict returns a mapping with exactly the key/value pairs of its
\* input whose value is not None: keys with falsy values other than None (0,
\* False, the empty string, the empty list) are kept, the input is not
\* modified, and cleaning the result again changes nothing.
C38_CleanDictKeepsAllButNone ==
    Cleaned =>
        LET d == tool.arguments.items
            r == tool.sent
        IN /\ DOMAIN r = {k \in DOMAIN d : d[k] # PyNone}
           /\ \A k \in DOMAIN r : r[k] = d[k]
           /\ \A k \in DOMAIN d : d[k] \in PyFalsy => k \in DOMAIN r
           /\ clean_dict(r) = r

\* call_tool was given {"search": None, "code_name": ""}: the cleaned
\* payload is {"code_name": ""} and the arguments still hold both keys
C38_Witness ==
    /\ Cleaned /\ tool.layer = "legifrance_tools.call_tool"
    /\ tool.arguments.items = [k \in PayloadKeys |->
                                  IF k = "search" THEN PyNone ELSE PyStr("")]
    /\ tool.sent = [k \in {"code_name"} |-> PyStr("")]

\* the successful token responses that carry no expires_in field
WithoutExpiresIn ==
    {resp \in TokenResponses :
        /\ resp.status = 200 /\ resp.json
        /\ resp.access_token \in UsableTokenValues
        /\ resp.expires_in.kind = "absent"}

\* C39: when a successful token response has no expires_in field the
\* lifetime defaults to 3600, so the token's expires_at is the processing
\* time + 3540; a TokenInfo is never changed after it was built: token_info
\* changes only when a token call succeeds, and then as a whole, to the
\* access token and the expiry computed from that one response (caller 1
\* works on client, caller 2 on twin).
C39_DefaultLifetimeAndReplacement ==
    [][\A c \in {1, 2} :
          LET r == callers[c]
              n == callers'[c]
              cl == ClientOf(c)
          IN /\ r.pc = "tok_wait"
                   => \A resp \in WithoutExpiresIn :
                         token_response(r, cl, now, resp).cl.token_info =
                            TokenInfo(resp.access_token.value,
                                      [set |-> TRUE, at |-> now + 3540])
             /\ ClientOf(c)'.token_info # cl.token_info
                   => /\ r.pc = "tok_wait"
                      /\ n.pc \in {"data_wait", "fb_wait"}
                      /\ ClientOf(c)'.token_info.access_token = n.got
                      /\ ClientOf(c)'.token_info.expires_at.set
                      /\ ClientOf(c)'.token_info.expires_at.at - now
                            \in {e - 60 : e \in ExpiresInInts \cup {3600}}]_vars

\* a refresh made after time 0 was answered without expires_in: the client
\* holds the new token, expiring 3540 s after the refresh
C39_Witness ==
    /\ callers[1].pc = "data_wait" /\ callers[1].tok_calls >= 1
    /\ callers[1].got = "tokB" /\ now >= 1
    /\ client.token_info = TokenInfo("tokB", [set |-> TRUE, at |-> now + 3540])
    /\ twin.token_info = client.token_info

====
